---- MODULE Spec2Model ----
(***************************************************************************)
(* Model of pdf_extraction_test: the RateLimiter, the extractors' extract  *)
(* call wrapped in its retry decorator, PDFParser.parse and parse_batch.   *)
(* Time is counted in whole seconds (one tick = 1 s).                      *)
(***************************************************************************)
EXTENDS Integers, Sequences, FiniteSets, TLC

\* ------------------------------------------------------------------ bounds
NumTasks == 2      \* concurrent asyncio tasks
MaxCalls == 2      \* acquire() calls started in the limiter run
MaxTime  == 8      \* the clock stops advancing here
MaxTokens == 6     \* most prompt or completion tokens of a cost call
MaxTextLen == 4    \* most tokens of the response texts tried exhaustively

\* --------------------------------------------------------------- constants
TicksPerMinute == 60           \* the 60.0 of min_interval = 60.0 / rpm

Tasks == 1..NumTasks

\* requests_per_minute values tried (each divides 60, so 60/R is whole)
RpmSet == {20, 30, 60}

\* time.time() when the program starts: 0 for a test clock started at zero,
\* a value past every min_interval for the wall clock (seconds since 1970)
ClockStarts == {0, 3}

\* ---------------------------------------------------------- Optional[...]
None == <<>>
Some(x) == <<x>>
\* Python truthiness of an Optional[str]: neither None nor ""
Truthy(opt) == opt # None /\ opt[1] # ""

\* --------------------------------------------- model identifiers and cost
\* settings.claude_sonnet_model, claude_haiku_model, openai_gpt4_model, and
\* a model_name passed to OpenAIExtractor that no pricing family matches
claude_sonnet_model == "claude-sonnet-4-20250514"
claude_haiku_model  == "claude-3-5-haiku-20241022"
openai_gpt4_model   == "gpt-4-turbo-preview"
custom_openai_model == "GPT-3.5-turbo"
\* settings.claude_sonnet_model when the environment sets CLAUDE_SONNET_MODEL
\* to the 3.5 generation of sonnet
env_sonnet_model    == "claude-3-5-sonnet-20241022"

\* the characters of an identifier
Chars(id) ==
    CASE id = claude_sonnet_model ->
            <<"c", "l", "a", "u", "d", "e", "-", "s", "o", "n", "n", "e", "t",
              "-", "4", "-", "2", "0", "2", "5", "0", "5", "1", "4">>
      [] id = claude_haiku_model ->
            <<"c", "l", "a", "u", "d", "e", "-", "3", "-", "5", "-", "h", "a",
              "i", "k", "u", "-", "2", "0", "2", "4", "1", "0", "2", "2">>
      [] id = openai_gpt4_model ->
            <<"g", "p", "t", "-", "4", "-", "t", "u", "r", "b", "o", "-", "p",
              "r", "e", "v", "i", "e", "w">>
      [] id = custom_openai_model ->
            <<"G", "P", "T", "-", "3", ".", "5", "-", "t", "u", "r", "b", "o">>
      [] id = env_sonnet_model ->
            <<"c", "l", "a", "u", "d", "e", "-", "3", "-", "5", "-", "s", "o",
              "n", "n", "e", "t", "-", "2", "0", "2", "4", "1", "0", "2", "2">>

\* str.lower() on one character
LowerChar(c) ==
    CASE c = "G" -> "g" [] c = "P" -> "p" [] c = "T" -> "t"
      [] c = "S" -> "s" [] c = "H" -> "h" [] OTHER -> c
Lower(s) == [i \in 1..Len(s) |-> LowerChar(s[i])]

\* sub in s
Contains(sub, s) ==
    \E i \in 1..(Len(s) - Len(sub) + 1) : SubSeq(s, i, i + Len(sub) - 1) = sub

\* (mutant) every identifier holding "gpt" is priced as gpt-4
ModelKeyAnyGpt(model) ==
    LET lower == Lower(Chars(model))
    IN  IF Contains(<<"s", "o", "n", "n", "e", "t">>, lower) THEN "claude-sonnet"
        ELSE IF Contains(<<"h", "a", "i", "k", "u">>, lower) THEN "claude-haiku"
        ELSE IF Contains(<<"g", "p", "t">>, lower) THEN "gpt-4"
        ELSE ""

\* _calculate_cost: the model category ("" when none matches)
ModelKey(model) ==
    LET lower == Lower(Chars(model))
    IN  IF Contains(<<"s", "o", "n", "n", "e", "t">>, lower) THEN "claude-sonnet"
        ELSE IF Contains(<<"h", "a", "i", "k", "u">>, lower) THEN "claude-haiku"
        ELSE IF \/ Contains(<<"g", "p", "t", "-", "4">>, lower)
                \/ Contains(<<"g", "p", "t", "4">>, lower) THEN "gpt-4"
        ELSE ""

\* _calculate_cost: pricing, in quarter micro-USD per token
\* ($3/M = 12 quarters of a micro-USD per token, $0.25/M = 1)
Pricing(key) ==
    CASE key = "claude-sonnet" -> <<12, 60>>
      [] key = "claude-haiku"  -> <<1, 5>>
      [] key = "gpt-4"         -> <<40, 120>>

\* round(cost, 6): quarters of a micro-USD to whole micro-USD, nearest, a tie
\* to the even neighbour
Round6(quarters) ==
    LET whole == quarters \div 4
        rest  == quarters % 4
    IN  IF rest > 2 \/ (rest = 2 /\ whole % 2 = 1) THEN whole + 1 ELSE whole

\* _calculate_cost, in micro-USD
CalculateCost(prompt_tokens, completion_tokens, model) ==
    LET model_key == ModelKey(model)
    IN  IF model_key # ""
        THEN Round6(prompt_tokens * Pricing(model_key)[1]
                    + completion_tokens * Pricing(model_key)[2])
        ELSE 0

\* (mutant) the cost is cut to whole micro-USD instead of rounded
Round6Truncates(quarters) == {quarters \div 4}

\* round(cost, 6) on the float the code computes: the nearest whole micro-USD;
\* when the exact cost lies halfway between two of them the float lies just
\* below or just above, so either neighbour can be returned
Round6Outcomes(quarters) ==
    IF quarters % 4 = 2
    THEN {quarters \div 4, quarters \div 4 + 1}
    ELSE {Round6(quarters)}

\* _calculate_cost, in micro-USD: the values it can return
CalculateCostOutcomes(prompt_tokens, completion_tokens, model) ==
    LET model_key == ModelKey(model)
    IN  IF model_key # ""
        THEN Round6Outcomes(prompt_tokens * Pricing(model_key)[1]
                            + completion_tokens * Pricing(model_key)[2])
        ELSE {0}

\* ------------------------------------------------- _parse_json_response
\* A response text is a sequence of tokens: "{" "}" the braces, "kv" one
\* "key": value member, "null" the JSON null, "word" prose, "fence" a fence,
\* "json" the fence tag, "\n" and " " whitespace ("fence" is three backticks).
IsWs(c) == c \in {" ", "\n"}

\* json.loads: [ok, value]; value is the Python value: None for JSON null,
\* else the object, given by its member list ("kv" is a whole member list,
\* so an object text holds at most one)
JsonLoads(s) ==
    LET body == {i \in 1..Len(s) : ~IsWs(s[i])}
    IN  IF body = {} THEN [ok |-> FALSE, value |-> None]
        ELSE LET lo == CHOOSE i \in body : \A j \in body : i <= j
                 hi == CHOOSE i \in body : \A j \in body : i >= j
                 members == {i \in (lo + 1)..(hi - 1) : ~IsWs(s[i])}
             IN  IF lo = hi /\ s[lo] = "null"
                 THEN [ok |-> TRUE, value |-> None]
                 ELSE IF /\ lo < hi
                         /\ s[lo] = "{"
                         /\ s[hi] = "}"
                         /\ Cardinality(members) <= 1
                         /\ \A i \in members : s[i] = "kv"
                 THEN [ok |-> TRUE,
                       value |-> Some([members |-> Cardinality(members)])]
                 ELSE [ok |-> FALSE, value |-> None]

\* the search for a fenced block: fence, optional json tag, whitespace, a
\* newline, the block (group 1, as short as possible), a newline, fence
\* position after the opening fence at i and its optional tag
AfterTag(s, i) == IF i + 1 <= Len(s) /\ s[i + 1] = "json" THEN i + 2 ELSE i + 1
\* the newlines that can end the whitespace run started at p
NewlineStops(s, p) ==
    {n \in p..Len(s) : s[n] = "\n" /\ \A m \in p..(n - 1) : IsWs(s[m])}
\* the closers (newline, fence) at or after c
Closers(s, c) == {q \in c..(Len(s) - 1) : s[q] = "\n" /\ s[q + 1] = "fence"}
FenceStarts(s) ==
    {i \in 1..Len(s) :
        /\ s[i] = "fence"
        /\ \E n \in NewlineStops(s, AfterTag(s, i)) : Closers(s, n + 1) # {}}
\* [found, group]: group 1 of the leftmost match; the whitespace run is
\* greedy, the block lazy
FencedBlock(s) ==
    IF FenceStarts(s) = {} THEN [found |-> FALSE, group |-> <<>>]
    ELSE LET i == CHOOSE a \in FenceStarts(s) : \A b \in FenceStarts(s) : a <= b
             stops == {n \in NewlineStops(s, AfterTag(s, i)) : Closers(s, n + 1) # {}}
             n == CHOOSE a \in stops : \A b \in stops : a >= b
             q == CHOOSE a \in Closers(s, n + 1) : \A b \in Closers(s, n + 1) : a <= b
         IN  [found |-> TRUE, group |-> SubSeq(s, n + 1, q - 1)]

\* the search for a brace-delimited span, greedy: the first "{" to the
\* last "}"
BraceSpan(s) ==
    LET opens  == {i \in 1..Len(s) : s[i] = "{"}
        closes == {i \in 1..Len(s) : s[i] = "}"}
    IN  IF opens = {} \/ closes = {} THEN [found |-> FALSE, group |-> <<>>]
        ELSE LET i == CHOOSE a \in opens : \A b \in opens : a <= b
                 j == CHOOSE a \in closes : \A b \in closes : a >= b
             IN  IF i < j THEN [found |-> TRUE, group |-> SubSeq(s, i, j)]
                 ELSE [found |-> FALSE, group |-> <<>>]

\* _parse_json_response
ParseJsonResponse(response_text) ==
    LET direct == JsonLoads(response_text)
        block  == FencedBlock(response_text)
        inner  == JsonLoads(block.group)
        span   == BraceSpan(response_text)
        object == JsonLoads(span.group)
    IN  IF direct.ok THEN direct.value
        ELSE IF block.found /\ inner.ok THEN inner.value
        ELSE IF span.found /\ object.ok THEN object.value
        ELSE None

\* ------------------------------------------------ the retry decorator
MaxAttempts == 3               \* stop_after_attempt(3)
BackoffMin  == 2               \* wait_exponential(min=2)
BackoffMax  == 60              \* wait_exponential(max=60)

RECURSIVE Pow2(_)
Pow2(n) == IF n <= 0 THEN 1 ELSE 2 * Pow2(n - 1)

\* wait_exponential(multiplier=1, min=2, max=60): seconds slept after the
\* failed attempt number attempt_number
Backoff(attempt_number) ==
    LET exp == Pow2(attempt_number - 1)
        capped == IF exp < BackoffMax THEN exp ELSE BackoffMax
    IN  IF capped > BackoffMin THEN capped ELSE BackoffMin

\* retry(stop=stop_after_attempt(3), retry=retry_if_exception_type(...),
\* reraise=True): the wrapped call is made again when it raised and attempts
\* remain; body is [raised, value]
ShouldRetry(body, attempt_number) ==
    body.raised /\ attempt_number < MaxAttempts

\* ------------------------------------------------------------ extractors
\* create_extractor / the extractor constructors: the variant and its model
Extractors ==
    { [family |-> "claude", model_name |-> claude_sonnet_model],
      [family |-> "claude", model_name |-> claude_haiku_model],
      [family |-> "openai", model_name |-> openai_gpt4_model],
      [family |-> "openai", model_name |-> custom_openai_model] }

\* response texts the backend may answer with
ResponseTexts ==
    { <<"{", "kv", "}">>,
      <<"word", "\n", "fence", "json", "\n", "{", "kv", "}", "\n", "fence">>,
      <<"word", "{", "kv", "}", "word">>,
      <<"{", "kv", "}", "word", "{", "kv", "}">>,
      <<"word">>,
      <<>> }

\* (input tokens, output tokens) the backend may report
Usages == { <<0, 0>>, <<1000, 500>>, <<3, 1>> }

\* str(e) of the exceptions the SDK clients raise (they carry a message)
ErrorMessages == { "rate limited" }

\* what the awaited backend call can end in: a response, asyncio.wait_for
\* timing out, or the client raising
BackendOutcomes ==
    { [kind |-> "ok", text |-> x, input_tokens |-> u[1], output_tokens |-> u[2],
       total_tokens |-> u[1] + u[2], message |-> ""] :
          x \in ResponseTexts, u \in Usages }
    \cup { [kind |-> "timeout", text |-> <<>>, input_tokens |-> 0,
            output_tokens |-> 0, total_tokens |-> 0, message |-> ""] }
    \cup { [kind |-> "error", text |-> <<>>, input_tokens |-> 0,
            output_tokens |-> 0, total_tokens |-> 0, message |-> m] :
          m \in ErrorMessages }

NoOutcome == [kind |-> "none", text |-> <<>>, input_tokens |-> 0,
              output_tokens |-> 0, total_tokens |-> 0, message |-> ""]

\* (mutant) a response whose text does not parse is reported as an error
SuccessResultParseError(ex, o, elapsed) ==
    [ model |-> ex.model_name,
      extracted_data |-> ParseJsonResponse(o.text),
      raw_response |-> o.text,
      prompt_tokens |-> o.input_tokens,
      completion_tokens |-> o.output_tokens,
      total_tokens |-> o.input_tokens + o.output_tokens,
      extraction_time |-> elapsed,
      cost_usd |-> CalculateCost(o.input_tokens, o.output_tokens, ex.model_name),
      error |-> IF ParseJsonResponse(o.text) = None
                THEN Some("Could not parse JSON from response")
                ELSE None ]

\* ExtractionResult(...) as built on the success path of extract()
SuccessResult(ex, o, elapsed) ==
    [ model |-> ex.model_name,
      extracted_data |-> ParseJsonResponse(o.text),
      raw_response |-> o.text,
      prompt_tokens |-> o.input_tokens,
      completion_tokens |-> o.output_tokens,
      total_tokens |-> IF ex.family = "claude"
                       THEN o.input_tokens + o.output_tokens
                       ELSE o.total_tokens,
      extraction_time |-> elapsed,
      cost_usd |-> CalculateCost(o.input_tokens, o.output_tokens, ex.model_name),
      error |-> None ]

\* (mutant) the except branches leave error at its default
ErrorResultUnmarked(ex, elapsed, error_msg) ==
    [ model |-> ex.model_name,
      extracted_data |-> None,
      raw_response |-> <<>>,
      prompt_tokens |-> 0,
      completion_tokens |-> 0,
      total_tokens |-> 0,
      extraction_time |-> elapsed,
      cost_usd |-> 0,
      error |-> None ]

\* (mutant) the elapsed time is passed as cost_usd
ErrorResultCostIsTime(ex, elapsed, error_msg) ==
    [ model |-> ex.model_name,
      extracted_data |-> None,
      raw_response |-> <<>>,
      prompt_tokens |-> 0,
      completion_tokens |-> 0,
      total_tokens |-> 0,
      extraction_time |-> 0,
      cost_usd |-> elapsed,
      error |-> Some(error_msg) ]

\* ExtractionResult(...) as built in the except branches of extract(): the
\* other fields keep the dataclass defaults
ErrorResult(ex, elapsed, error_msg) ==
    [ model |-> ex.model_name,
      extracted_data |-> None,
      raw_response |-> <<>>,
      prompt_tokens |-> 0,
      completion_tokens |-> 0,
      total_tokens |-> 0,
      extraction_time |-> elapsed,
      cost_usd |-> 0,
      error |-> Some(error_msg) ]

\* (mutant) no except Exception branch: a client exception leaves the body
ExtractBodyUncaught(ex, o, elapsed) ==
    CASE o.kind = "ok" ->
            [raised |-> FALSE, value |-> SuccessResult(ex, o, elapsed)]
      [] o.kind = "timeout" ->
            [raised |-> FALSE,
             value |-> ErrorResult(ex, elapsed, "Timeout after 120s")]
      [] OTHER ->
            [raised |-> TRUE, value |-> o.message]

\* the try/except of extract(): [raised, value], value the ExtractionResult
\* returned (or the exception's message when raised)
ExtractBody(ex, o, elapsed) ==
    CASE o.kind = "ok" ->
            [raised |-> FALSE, value |-> SuccessResult(ex, o, elapsed)]
      [] o.kind = "timeout" ->
            [raised |-> FALSE,
             value |-> ErrorResult(ex, elapsed, "Timeout after 120s")]
      [] OTHER ->
            [raised |-> FALSE, value |-> ErrorResult(ex, elapsed, o.message)]

\* ---------------------------------------------------------------- parser
unstructured_rpm == 30         \* settings.unstructured_rpm
MaxConcurrent == 2             \* largest max_concurrent tried

\* what file_path.exists() does in parse(): True, False, or (a directory on
\* the way that may not be searched) raises PermissionError
FileStatuses == {"present", "missing", "unreadable"}

\* the texts of the elements a parse can return, each a sequence of characters
ElementLists ==
    { <<>>,
      << <<"a", "b", "c", "d", "e">> >>,
      << <<"a", "b">>, <<>>, <<"c", "d", "e", "f", "g">> >>,
      << <<" ">> >> }

\* '\n\n'.join(parts)
RECURSIVE Join(_)
Join(parts) ==
    IF parts = <<>> THEN <<>>
    ELSE IF Len(parts) = 1 THEN parts[1]
    ELSE parts[1] \o <<"\n", "\n">> \o Join(Tail(parts))

\* if elem_dict['text']
NonEmpty(text) == text # <<>>
\* if str(elem).strip()
NonBlank(text) == \E i \in 1..Len(text) : ~IsWs(text[i])

\* _parse_with_api: full_text of the response's elements
FullTextApi(elements) == Join(SelectSeq(elements, NonEmpty))
\* _parse_local: full_text of the partitioned elements
FullTextLocal(elements) == Join(SelectSeq(elements, NonBlank))

\* how the remote request can end: a response, asyncio.wait_for timing out,
\* the client raising SDKError, or another exception (reading the file)
ApiOutcomes ==
    { [kind |-> "ok", elements |-> x, message |-> ""] : x \in ElementLists }
    \cup { [kind |-> "timeout", elements |-> <<>>, message |-> ""],
           [kind |-> "sdk_error", elements |-> <<>>,
            message |-> "API error occurred: Status 500"],
           [kind |-> "error", elements |-> <<>>,
            message |-> "[Errno 5] Input/output error"] }

\* how the local parse can end: elements, the library missing, or
\* partition_pdf raising
LocalOutcomes ==
    { [kind |-> "ok", elements |-> x, message |-> ""] : x \in ElementLists }
    \cup { [kind |-> "import_error", elements |-> <<>>, message |-> ""],
           [kind |-> "error", elements |-> <<>>, message |-> "Invalid PDF"] }

NoParseOutcome == [kind |-> "none", elements |-> <<>>, message |-> ""]
\* the existence check ended the call: the file is missing, or exists() raised
FileOutcome(f) == [kind |-> f, elements |-> <<>>, message |-> ""]

\* str(e): asyncio.TimeoutError() carries no message
StrOfException(o) == IF o.kind = "timeout" THEN "" ELSE o.message

\* ParseResult(...) as built on the success paths
ParseOk(file, elements, full_text, parse_time) ==
    [ file_path |-> file,
      text |-> full_text,
      elements |-> Some(elements),
      parse_time |-> parse_time,
      token_count |-> Some(Len(full_text) \div 4),
      error |-> None ]

\* (mutant) the failure paths pass an empty element list and a zero count
ParseFailedWithElements(file, parse_time, error_msg) ==
    [ file_path |-> file,
      text |-> <<>>,
      elements |-> Some(<<>>),
      parse_time |-> parse_time,
      token_count |-> Some(0),
      error |-> Some(error_msg) ]

\* (mutant) the failure paths leave error unset
ParseFailedNoError(file, parse_time, error_msg) ==
    [ file_path |-> file,
      text |-> <<>>,
      elements |-> None,
      parse_time |-> parse_time,
      token_count |-> None,
      error |-> None ]

\* ParseResult(...) as built on the failure paths: elements and token_count
\* keep the dataclass defaults
ParseFailed(file, parse_time, error_msg) ==
    [ file_path |-> file,
      text |-> <<>>,
      elements |-> None,
      parse_time |-> parse_time,
      token_count |-> None,
      error |-> Some(error_msg) ]

\* the try/except of _parse_with_api: [raised, exc, value]
ParseApiBody(file, o, elapsed) ==
    IF o.kind = "ok"
    THEN [raised |-> FALSE, exc |-> "",
          value |-> ParseOk(file, o.elements, FullTextApi(o.elements), elapsed)]
    ELSE [raised |-> FALSE, exc |-> "",
          value |-> ParseFailed(file, elapsed, StrOfException(o))]

\* the try/except of _parse_local: the ParseResult returned
ParseLocalBody(file, o, elapsed) ==
    CASE o.kind = "ok" ->
            ParseOk(file, o.elements, FullTextLocal(o.elements), elapsed)
      [] o.kind = "import_error" ->
            ParseFailed(file, elapsed,
                        "Local parsing requires: pip install unstructured[pdf]")
      [] OTHER -> ParseFailed(file, elapsed, o.message)

\* retry(stop_after_attempt(3), retry_if_exception_type((SDKError,
\* asyncio.TimeoutError)), reraise=True) around _parse_with_api
ShouldRetryParse(body, attempt_number) ==
    /\ body.raised
    /\ body.exc \in {"SDKError", "TimeoutError"}
    /\ attempt_number < MaxAttempts

VARIABLES
    clock,                \* time.time()
    requests_per_minute,  \* RateLimiter.requests_per_minute
    last_request_time,    \* RateLimiter.last_request_time
    lock_holder,          \* RateLimiter._lock: {} when free, else {the holding task}
    lock_waiters,         \* RateLimiter._lock: FIFO of tasks waiting for it
    pc,                   \* position of each task
    now,                  \* acquire(): local now of each task
    wake_at,              \* acquire(): earliest end of asyncio.sleep(wait_time)
    calls,                \* acquire() calls started so far
    grants,               \* history: the values written to last_request_time
    extractor,            \* the extractor instance: variant and model_name
    attempt,              \* retry decorator: attempt number of each task's call
    backend_calls,        \* history: backend requests made for each task's call
    start_time,           \* extract()/parse: local start_time of each task
    outcome,              \* history: what each task's last backend call ended in
    responded_at,         \* history: time.time() when that backend call ended
    result,               \* what each task's call handed to its caller
    client,               \* PDFParser.client is set (not None)
    use_api,              \* parse_batch(use_api=...)
    max_concurrent,       \* parse_batch(max_concurrent=...)
    sem_value,            \* asyncio.Semaphore: free slots
    parsed_results,       \* parse_batch: the list returned; _compare: parse_result
    finished,             \* history: the batch's tasks in the order they ended
    query_list,           \* compare: the caller's query types, in order
    model_types,          \* compare: the caller's backends, in order
    pair_index,           \* compare: (query type, backend) pairs started so far
    results,              \* _compare: results; ResultComparator.results
    metrics,              \* calculate_metrics(): the list returned, None before
    summary,              \* generate_summary_stats(): the dict returned, None before
    recommendations,      \* generate_markdown_report(): the three names, None before
    data,                 \* _count_fields: its argument
    field_count,          \* _count_fields: the count returned, None before
    call_args,            \* a pure function under check: its arguments
    call_value,           \* a pure function under check: the value returned
    request_log           \* history: the backend requests of a run, in order

limVars == <<requests_per_minute, last_request_time, lock_holder, lock_waiters,
             now, wake_at, grants>>
extVars == <<extractor, attempt, backend_calls, start_time, outcome,
            responded_at, result>>
parseVars == <<client, use_api, max_concurrent, sem_value, parsed_results,
              finished>>
cmpVars == <<query_list, model_types, pair_index, results, metrics, summary,
            recommendations, data, field_count>>
fnVars == <<call_args, call_value>>
auxVars == <<fnVars, request_log>>
appVars == <<extVars, parseVars, cmpVars, auxVars>>
vars == <<clock, limVars, pc, calls, appVars>>

\* RateLimiter.__init__: min_interval = 60.0 / requests_per_minute
min_interval == TicksPerMinute \div requests_per_minute

\* RateLimiter.__init__
LimiterInit ==
    /\ requests_per_minute \in RpmSet
    /\ last_request_time = 0
    /\ lock_holder = {}
    /\ lock_waiters = <<>>
    /\ now = [t \in Tasks |-> 0]
    /\ wake_at = [t \in Tasks |-> 0]
    /\ grants = <<>>

\* (mutant) acquire() without the lock: nobody is ever made to wait
LockNeverTaken == TRUE

\* asyncio.Lock.acquire: free and nobody queued -> taken at once
LockIsFree == lock_holder = {} /\ lock_waiters = <<>>

\* async with self._lock: entered by task t
AcquireEnter(t) ==
    IF LockIsFree
    THEN /\ lock_holder' = {t}
         /\ lock_waiters' = lock_waiters
         /\ pc' = [pc EXCEPT ![t] = "locked"]
    ELSE /\ lock_waiters' = Append(lock_waiters, t)
         /\ lock_holder' = lock_holder
         /\ pc' = [pc EXCEPT ![t] = "lock_wait"]

\* (mutant) the sleep is not awaited: acquire() never waits
WaitTimeNotAwaited(n) == 0

\* wait_time of acquire() for a clock reading n (0 when no sleep is needed)
WaitTime(n) ==
    LET time_since_last == n - last_request_time
    IN  IF time_since_last < min_interval
        THEN min_interval - time_since_last
        ELSE 0

\* acquire(): now = time.time(); compute wait_time; start the sleep if any
AcquireCheck(t) ==
    /\ pc[t] = "locked"
    /\ now' = [now EXCEPT ![t] = clock]
    /\ wake_at' = [wake_at EXCEPT ![t] = clock + WaitTime(clock)]
    /\ pc' = [pc EXCEPT ![t] = "record"]
    /\ UNCHANGED <<clock, requests_per_minute, last_request_time, lock_holder,
                   lock_waiters, grants, calls, appVars>>

\* (mutant) the lock is released without waking the first waiter
ReleasePcNoWakeUp(t, after) == [pc EXCEPT ![t] = after]

\* asyncio.Lock.release: the first waiter, if any, is handed the lock
ReleasePc(t, after) ==
    IF lock_waiters = <<>>
    THEN [pc EXCEPT ![t] = after]
    ELSE [pc EXCEPT ![t] = after, ![Head(lock_waiters)] = "locked"]

\* acquire(): the sleep (if any) is over; last_request_time = time.time();
\* leaving async with releases the lock
AcquireRecord(t) ==
    /\ pc[t] = "record"
    /\ clock >= wake_at[t]
    /\ last_request_time' = clock
    /\ grants' = Append(grants, clock)
    /\ lock_holder' = IF lock_waiters = <<>> THEN {} ELSE {Head(lock_waiters)}
    /\ lock_waiters' = IF lock_waiters = <<>> THEN <<>> ELSE Tail(lock_waiters)
    /\ pc' = ReleasePc(t, "acquired")
    /\ now' = [now EXCEPT ![t] = 0]
    /\ wake_at' = [wake_at EXCEPT ![t] = 0]
    /\ UNCHANGED <<clock, requests_per_minute, calls, appVars>>

\* time passes
Tick ==
    /\ clock < MaxTime
    /\ clock' = clock + 1
    /\ UNCHANGED <<limVars, pc, calls, appVars>>

\* ------------------------------------------------- the limiter on its own
\* a task calls limiter.acquire() (again)
CallAcquire(t) ==
    /\ pc[t] \in {"idle", "acquired"}
    /\ calls < MaxCalls
    /\ calls' = calls + 1
    /\ AcquireEnter(t)
    /\ UNCHANGED <<clock, requests_per_minute, last_request_time, now, wake_at,
                   grants, appVars>>

\* no parser is in use
ParserIdle ==
    /\ client = FALSE
    /\ use_api = FALSE
    /\ max_concurrent = 0
    /\ sem_value = 0
    /\ parsed_results = None
    /\ finished = <<>>

\* no comparison is in use
CompareIdle ==
    /\ query_list = <<>>
    /\ model_types = <<>>
    /\ pair_index = 0
    /\ results = <<>>
    /\ metrics = None
    /\ summary = None
    /\ recommendations = None
    /\ data = None
    /\ field_count = None

\* no pure function is under check and no request was made
AuxIdle ==
    /\ call_args = None
    /\ call_value = None
    /\ request_log = <<>>

\* nothing of the extractor is in use
ExtractIdle ==
    /\ attempt = [t \in Tasks |-> 0]
    /\ backend_calls = [t \in Tasks |-> 0]
    /\ start_time = [t \in Tasks |-> 0]
    /\ outcome = [t \in Tasks |-> NoOutcome]
    /\ responded_at = [t \in Tasks |-> 0]
    /\ result = [t \in Tasks |-> None]

Init ==
    /\ clock \in ClockStarts
    /\ LimiterInit
    /\ pc = [t \in Tasks |-> "idle"]
    /\ calls = 0
    /\ extractor \in {CHOOSE e \in Extractors : TRUE}
    /\ ExtractIdle
    /\ ParserIdle
    /\ AuxIdle
    /\ CompareIdle

\* ------------------------------------------------------------ extract()
\* the orchestrating coroutine awaits extractor.extract(...), one call after
\* the other: the retry decorator starts its first attempt
ExtractCall(t) ==
    /\ pc[t] \in {"idle", "x_done"}
    /\ \A u \in Tasks \ {t} : pc[u] = "idle"
    /\ calls < MaxCalls
    /\ calls' = calls + 1
    /\ attempt' = [attempt EXCEPT ![t] = 1]
    /\ backend_calls' = [backend_calls EXCEPT ![t] = 0]
    /\ outcome' = [outcome EXCEPT ![t] = NoOutcome]
    /\ responded_at' = [responded_at EXCEPT ![t] = 0]
    /\ result' = [result EXCEPT ![t] = None]
    /\ wake_at' = [wake_at EXCEPT ![t] = clock]
    /\ pc' = [pc EXCEPT ![t] = "x_attempt"]
    /\ UNCHANGED <<clock, requests_per_minute, last_request_time, lock_holder,
                   lock_waiters, now, grants, extractor, start_time, parseVars, cmpVars, auxVars>>

\* the decorator runs the body of extract() (once any backoff is over):
\* await self.rate_limiter.acquire()
ExtractAttempt(t) ==
    /\ pc[t] = "x_attempt"
    /\ clock >= wake_at[t]
    /\ AcquireEnter(t)
    /\ UNCHANGED <<clock, requests_per_minute, last_request_time, now, wake_at,
                   grants, calls, appVars>>

\* start_time = time.time(); the request goes to the backend
ExtractRequest(t) ==
    /\ pc[t] = "acquired"
    /\ attempt[t] > 0
    /\ start_time' = [start_time EXCEPT ![t] = clock]
    /\ backend_calls' = [backend_calls EXCEPT ![t] = @ + 1]
    /\ pc' = [pc EXCEPT ![t] = "x_await"]
    /\ UNCHANGED <<clock, limVars, calls, extractor, attempt, outcome,
                   responded_at, result, parseVars, cmpVars, auxVars>>

\* the awaited backend call ends; the body returns or raises, and the retry
\* decorator either runs the body again after the backoff or hands the
\* body's outcome to the caller
ExtractResponse(t, outcomes) ==
    /\ pc[t] = "x_await"
    /\ \E o \in outcomes :
        LET body == ExtractBody(extractor, o, clock - start_time[t])
        IN  /\ outcome' = [outcome EXCEPT ![t] = o]
            /\ responded_at' = [responded_at EXCEPT ![t] = clock]
            /\ IF ShouldRetry(body, attempt[t])
               THEN /\ attempt' = [attempt EXCEPT ![t] = @ + 1]
                    /\ wake_at' = [wake_at EXCEPT ![t] = clock + Backoff(attempt[t])]
                    /\ pc' = [pc EXCEPT ![t] = "x_attempt"]
                    /\ result' = result
               ELSE /\ attempt' = attempt
                    /\ wake_at' = wake_at
                    /\ pc' = [pc EXCEPT ![t] = "x_done"]
                    /\ result' = [result EXCEPT ![t] =
                          Some([kind |-> IF body.raised THEN "raised" ELSE "returned",
                                value |-> body.value])]
    /\ UNCHANGED <<clock, requests_per_minute, last_request_time, lock_holder,
                   lock_waiters, now, grants, calls, extractor, backend_calls,
                   start_time, parseVars, cmpVars, auxVars>>

InitExtract ==
    /\ clock \in ClockStarts
    /\ LimiterInit
    /\ pc = [t \in Tasks |-> "idle"]
    /\ calls = 0
    /\ extractor \in Extractors
    /\ ExtractIdle
    /\ ParserIdle
    /\ AuxIdle
    /\ CompareIdle

NextExtract ==
    \/ Tick
    \/ \E t \in Tasks : ExtractCall(t)
    \/ \E t \in Tasks : ExtractAttempt(t)
    \/ \E t \in Tasks : AcquireCheck(t)
    \/ \E t \in Tasks : AcquireRecord(t)
    \/ \E t \in Tasks : ExtractRequest(t)
    \/ \E t \in Tasks : ExtractResponse(t, BackendOutcomes)

SpecExtract == InitExtract /\ [][NextExtract]_vars

\* ------------------------------------------------------------- parse()
\* parse(): the existence check, then the remote or the local parse is
\* chosen; the retry decorator of _parse_with_api starts its first attempt
ParseEnter(t) ==
    /\ \E f \in FileStatuses :
        CASE f = "missing" ->
                /\ result' = [result EXCEPT ![t] =
                      Some([kind |-> "returned",
                            value |-> ParseFailed(t, 0, "File not found")])]
                /\ pc' = [pc EXCEPT ![t] = "p_done"]
                /\ outcome' = [outcome EXCEPT ![t] = FileOutcome(f)]
                /\ UNCHANGED <<attempt, wake_at, start_time>>
          [] f = "unreadable" ->
                /\ result' = [result EXCEPT ![t] =
                      Some([kind |-> "raised",
                            value |-> "[Errno 13] Permission denied"])]
                /\ pc' = [pc EXCEPT ![t] = "p_done"]
                /\ outcome' = [outcome EXCEPT ![t] = FileOutcome(f)]
                /\ UNCHANGED <<attempt, wake_at, start_time>>
          [] OTHER ->
                IF use_api /\ client
                THEN /\ attempt' = [attempt EXCEPT ![t] = 1]
                     /\ wake_at' = [wake_at EXCEPT ![t] = clock]
                     /\ pc' = [pc EXCEPT ![t] = "p_attempt"]
                     /\ result' = [result EXCEPT ![t] = None]
                     /\ outcome' = [outcome EXCEPT ![t] = NoParseOutcome]
                     /\ UNCHANGED start_time
                ELSE /\ start_time' = [start_time EXCEPT ![t] = clock]
                     /\ pc' = [pc EXCEPT ![t] = "p_local"]
                     /\ result' = [result EXCEPT ![t] = None]
                     /\ outcome' = [outcome EXCEPT ![t] = NoParseOutcome]
                     /\ UNCHANGED <<attempt, wake_at>>
    /\ backend_calls' = [backend_calls EXCEPT ![t] = 0]
    /\ UNCHANGED <<clock, requests_per_minute, last_request_time, lock_holder,
                   lock_waiters, now, grants, extractor, responded_at, parseVars, cmpVars, auxVars>>

\* the orchestrating coroutine awaits parser.parse(...), one call after the
\* other
ParseCall(t) ==
    /\ pc[t] \in {"idle", "p_done"}
    /\ \A u \in Tasks \ {t} : pc[u] = "idle"
    /\ calls < MaxCalls
    /\ calls' = calls + 1
    /\ ParseEnter(t)

\* (mutant) the body of _parse_with_api goes on to the request without
\* acquiring the limiter
ParseAttemptNoAcquire(t) ==
    /\ pc[t] = "p_attempt"
    /\ clock >= wake_at[t]
    /\ pc' = [pc EXCEPT ![t] = "acquired"]
    /\ UNCHANGED <<clock, limVars, calls, appVars>>

\* the decorator runs the body of _parse_with_api (once any backoff is
\* over): the client is set; await self.rate_limiter.acquire()
ParseAttempt(t) ==
    /\ pc[t] = "p_attempt"
    /\ clock >= wake_at[t]
    /\ AcquireEnter(t)
    /\ UNCHANGED <<clock, requests_per_minute, last_request_time, now, wake_at,
                   grants, calls, appVars>>

\* start_time = time.time(); the file is read and the request is sent. The
\* history notes the request and how many grants the limiter had made by then
ParseRequest(t) ==
    /\ pc[t] = "acquired"
    /\ start_time' = [start_time EXCEPT ![t] = clock]
    /\ backend_calls' = [backend_calls EXCEPT ![t] = @ + 1]
    /\ request_log' = Append(request_log,
                             [backend |-> "api", granted |-> Len(grants)])
    /\ pc' = [pc EXCEPT ![t] = "p_await"]
    /\ UNCHANGED <<clock, limVars, calls, extractor, attempt, outcome,
                   responded_at, result, parseVars, cmpVars, fnVars>>

\* the remote request ends in one of outcomes; the body returns or raises,
\* and the retry decorator either runs the body again after the backoff or
\* hands the body's outcome to parse(), which returns it
ParseResponse(t, outcomes) ==
    /\ pc[t] = "p_await"
    /\ \E o \in outcomes :
        LET body == ParseApiBody(t, o, clock - start_time[t])
        IN  /\ outcome' = [outcome EXCEPT ![t] = o]
            /\ IF ShouldRetryParse(body, attempt[t])
               THEN /\ attempt' = [attempt EXCEPT ![t] = @ + 1]
                    /\ wake_at' = [wake_at EXCEPT ![t] = clock + Backoff(attempt[t])]
                    /\ pc' = [pc EXCEPT ![t] = "p_attempt"]
                    /\ result' = result
               ELSE /\ attempt' = attempt
                    /\ wake_at' = wake_at
                    /\ pc' = [pc EXCEPT ![t] = "p_done"]
                    /\ result' = [result EXCEPT ![t] =
                          Some([kind |-> IF body.raised THEN "raised" ELSE "returned",
                                value |-> body.value])]
    /\ start_time' = [start_time EXCEPT ![t] = 0]
    /\ UNCHANGED <<clock, requests_per_minute, last_request_time, lock_holder,
                   lock_waiters, now, grants, calls, extractor, backend_calls,
                   responded_at, parseVars, cmpVars, auxVars>>

\* _parse_local: the local parse ends in one of outcomes
ParseLocal(t, outcomes) ==
    /\ pc[t] = "p_local"
    /\ \E o \in outcomes :
        /\ outcome' = [outcome EXCEPT ![t] = o]
        /\ result' = [result EXCEPT ![t] =
              Some([kind |-> "returned",
                    value |-> ParseLocalBody(t, o, clock - start_time[t])])]
    /\ pc' = [pc EXCEPT ![t] = "p_done"]
    /\ start_time' = [start_time EXCEPT ![t] = 0]
    /\ request_log' = Append(request_log,
                             [backend |-> "local", granted |-> Len(grants)])
    /\ UNCHANGED <<clock, limVars, calls, extractor, attempt, backend_calls,
                   responded_at, parseVars, cmpVars, fnVars>>

\* PDFParser(api_key, ...): the client is set when a key is given and the
\* library is there; then parse(file, strategy, use_api) calls
InitParse ==
    /\ clock \in ClockStarts
    /\ LimiterInit
    /\ requests_per_minute = unstructured_rpm
    /\ pc = [t \in Tasks |-> "idle"]
    /\ calls = 0
    /\ extractor \in {CHOOSE e \in Extractors : TRUE}
    /\ attempt = [t \in Tasks |-> 0]
    /\ backend_calls = [t \in Tasks |-> 0]
    /\ start_time = [t \in Tasks |-> 0]
    /\ outcome = [t \in Tasks |-> NoParseOutcome]
    /\ responded_at = [t \in Tasks |-> 0]
    /\ result = [t \in Tasks |-> None]
    /\ client \in BOOLEAN
    /\ use_api \in BOOLEAN
    /\ max_concurrent = 0
    /\ sem_value = 0
    /\ parsed_results = None
    /\ finished = <<>>
    /\ CompareIdle
    /\ AuxIdle

NextParse ==
    \/ Tick
    \/ \E t \in Tasks : ParseCall(t)
    \/ \E t \in Tasks : ParseAttempt(t)
    \/ \E t \in Tasks : AcquireCheck(t)
    \/ \E t \in Tasks : AcquireRecord(t)
    \/ \E t \in Tasks : ParseRequest(t)
    \/ \E t \in Tasks : ParseResponse(t, ApiOutcomes)
    \/ \E t \in Tasks : ParseLocal(t, LocalOutcomes)

SpecParse == InitParse /\ [][NextParse]_vars

\* --------------------------------------------------------- parse_batch()
\* (mutant) the admission gate admits without looking at the free slots
SemAlwaysFree == TRUE

\* asyncio.Semaphore.acquire: a slot is free
SemFree == sem_value > 0

\* parse_with_semaphore: async with semaphore, entered
SemAcquire(t) ==
    /\ pc[t] = "b_queued"
    /\ SemFree
    /\ sem_value' = sem_value - 1
    /\ pc' = [pc EXCEPT ![t] = "b_admitted"]
    /\ UNCHANGED <<clock, limVars, calls, extVars, client, use_api,
                   max_concurrent, parsed_results, finished,
                   cmpVars, auxVars>>

\* parse_with_semaphore: await self.parse(path, strategy, use_api)
BatchParse(t) ==
    /\ pc[t] = "b_admitted"
    /\ ParseEnter(t)
    /\ UNCHANGED calls

\* parse_with_semaphore: parse() has returned or raised; leaving async with
\* gives the slot back
SemRelease(t) ==
    /\ pc[t] = "p_done"
    /\ sem_value' = sem_value + 1
    /\ pc' = [pc EXCEPT ![t] = "b_finished"]
    /\ finished' = Append(finished, t)
    /\ UNCHANGED <<clock, limVars, calls, extVars, client, use_api,
                   max_concurrent, parsed_results, cmpVars, auxVars>>

\* (mutant) the tasks' results are collected in the order the tasks ended
GatherAsCompleted == [i \in Tasks |-> result[finished[i]][1]]

\* asyncio.gather(*tasks, return_exceptions=True): what each task returned
\* or raised, in the order of tasks
GatherResults == [t \in Tasks |-> result[t][1]]

\* (mutant) the synthesized ParseResult carries no message
HandleExceptionNoMessage(r, file) ==
    IF r.kind = "raised" THEN ParseFailed(file, 0, "") ELSE r.value

\* parse_batch, after gather(return_exceptions=True): a ParseResult is
\* synthesized for a task that raised
HandleException(r, file) ==
    IF r.kind = "raised" THEN ParseFailed(file, 0, r.value) ELSE r.value

\* asyncio.gather returns once every task has ended; parse_batch returns
\* parsed_results, in the order of file_paths
BatchReturn ==
    /\ parsed_results = None
    /\ \A t \in Tasks : pc[t] = "b_finished"
    /\ parsed_results' = Some([t \in Tasks |-> HandleException(GatherResults[t], t)])
    /\ UNCHANGED <<clock, limVars, pc, calls, extVars, client, use_api,
                   max_concurrent, sem_value, finished, cmpVars, auxVars>>

\* the outcomes tried in a batch: of the answers with elements, a document
\* without elements, one with text, and one whose only element is blank
BatchElementLists ==
    { <<>>, << <<"a", "b", "c", "d", "e">> >>, << <<" ">> >> }
BatchApiOutcomes ==
    {o \in ApiOutcomes : o.kind # "ok" \/ o.elements \in BatchElementLists}
BatchLocalOutcomes ==
    {o \in LocalOutcomes : o.kind # "ok" \/ o.elements \in BatchElementLists}

\* PDFParser(), then parse_batch(file_paths, strategy, use_api,
\* max_concurrent) with one task per file
InitBatch ==
    /\ clock \in ClockStarts
    /\ LimiterInit
    /\ requests_per_minute = unstructured_rpm
    /\ pc = [t \in Tasks |-> "b_queued"]
    /\ calls = 0
    /\ extractor \in {CHOOSE e \in Extractors : TRUE}
    /\ attempt = [t \in Tasks |-> 0]
    /\ backend_calls = [t \in Tasks |-> 0]
    /\ start_time = [t \in Tasks |-> 0]
    /\ outcome = [t \in Tasks |-> NoParseOutcome]
    /\ responded_at = [t \in Tasks |-> 0]
    /\ result = [t \in Tasks |-> None]
    /\ client \in BOOLEAN
    /\ use_api \in BOOLEAN
    /\ max_concurrent \in 1..MaxConcurrent
    /\ sem_value = max_concurrent
    /\ parsed_results = None
    /\ finished = <<>>
    /\ CompareIdle
    /\ AuxIdle

\* in a batch, time is let pass only while a task sleeps in acquire() (or
\* in a backoff): the requests themselves are taken to end at once
SleepTick ==
    /\ \E t \in Tasks :
          pc[t] \in {"record", "p_attempt", "x_attempt"} /\ clock < wake_at[t]
    /\ Tick

NextBatch ==
    \/ SleepTick
    \/ \E t \in Tasks : SemAcquire(t)
    \/ \E t \in Tasks : BatchParse(t)
    \/ \E t \in Tasks : ParseAttempt(t)
    \/ \E t \in Tasks : AcquireCheck(t)
    \/ \E t \in Tasks : AcquireRecord(t)
    \/ \E t \in Tasks : ParseRequest(t)
    \/ \E t \in Tasks : ParseResponse(t, BatchApiOutcomes)
    \/ \E t \in Tasks : ParseLocal(t, BatchLocalOutcomes)
    \/ \E t \in Tasks : SemRelease(t)
    \/ BatchReturn

SpecBatch == InitBatch /\ [][NextBatch]_vars

\* ------------------------------------------------------------- compare
anthropic_rpm == 50            \* settings.anthropic_rpm
openai_rpm == 60               \* settings.openai_rpm

\* ModelType
CLAUDE_SONNET == "claude-sonnet"
CLAUDE_HAIKU == "claude-haiku"
GPT4 == "gpt-4"

\* create_extractor(model_type): the extractor's variant and model_name
CreateExtractor(model_type) ==
    CASE model_type = CLAUDE_SONNET ->
            [family |-> "claude", model_name |-> claude_sonnet_model]
      [] model_type = CLAUDE_HAIKU ->
            [family |-> "claude", model_name |-> claude_haiku_model]
      [] OTHER ->
            [family |-> "openai", model_name |-> openai_gpt4_model]

\* rpm = rate_limit or settings.anthropic_rpm / settings.openai_rpm
ExtractorRpm(ex) == IF ex.family = "claude" THEN anthropic_rpm ELSE openai_rpm

\* the query lists (each 1..5, in the caller's order) and the backend lists
\* a comparison is run with
QueryLists == { <<1>>, <<1, 2>>, <<2, 1>>, <<3, 3>> }
ModelLists == { <<CLAUDE_SONNET>>, <<CLAUDE_HAIKU, GPT4>>, <<GPT4, CLAUDE_SONNET>> }

\* total_extractions = len(query_list) * len(model_types)
total_extractions == Len(query_list) * Len(model_types)

\* (mutant) the loops are nested the other way round: backend outer
PairOfModelOuter(k) ==
    [ query_type |-> query_list[((k - 1) % Len(query_list)) + 1],
      model_type |-> model_types[((k - 1) \div Len(query_list)) + 1] ]

\* for query_type in query_list: for model_type in model_types: the k-th
\* pair the nested loops reach
PairOf(k) ==
    [ query_type |-> query_list[((k - 1) \div Len(model_types)) + 1],
      model_type |-> model_types[((k - 1) % Len(model_types)) + 1] ]

\* every ExtractionResult(...) of extract() is built with
\* query_type=query_type, the argument of the call
WithQueryType(r, query_type) ==
    [ query_type |-> query_type,
      model |-> r.model,
      extracted_data |-> r.extracted_data,
      raw_response |-> r.raw_response,
      prompt_tokens |-> r.prompt_tokens,
      completion_tokens |-> r.completion_tokens,
      total_tokens |-> r.total_tokens,
      extraction_time |-> r.extraction_time,
      cost_usd |-> r.cost_usd,
      error |-> r.error ]

\* what the backend calls of a comparison end in
CompareOutcomes ==
    {o \in BackendOutcomes :
        \/ o.kind # "ok"
        \/ o.text = <<"{", "kv", "}">> /\ o.input_tokens = 1000
        \/ o.text = <<"word">> /\ o.input_tokens = 3}

\* the loop body up to the call: extractor = create_extractor(model_type),
\* with its own new RateLimiter; result = await extractor.extract(...)
CompareNext(t) ==
    /\ pc[t] = "c_loop"
    /\ pair_index < total_extractions
    /\ pair_index' = pair_index + 1
    /\ extractor' = CreateExtractor(PairOf(pair_index + 1).model_type)
    /\ requests_per_minute' = ExtractorRpm(extractor')
    /\ last_request_time' = 0
    /\ lock_holder' = {}
    /\ lock_waiters' = <<>>
    /\ grants' = <<>>
    /\ attempt' = [attempt EXCEPT ![t] = 1]
    /\ backend_calls' = [backend_calls EXCEPT ![t] = 0]
    /\ outcome' = [outcome EXCEPT ![t] = NoOutcome]
    /\ responded_at' = [responded_at EXCEPT ![t] = 0]
    /\ result' = [result EXCEPT ![t] = None]
    /\ wake_at' = [wake_at EXCEPT ![t] = clock]
    /\ pc' = [pc EXCEPT ![t] = "x_attempt"]
    /\ UNCHANGED <<clock, now, calls, start_time, parseVars, auxVars, query_list,
                   model_types, results, metrics, summary, recommendations,
                   data, field_count>>

\* extract() has ended: results.append(result); an exception out of
\* extract() would leave _compare. The history notes the backend the call
\* went to and the time its request was made (start_time)
CompareAppend(t) ==
    /\ pc[t] = "x_done"
    /\ IF result[t][1].kind = "returned"
       THEN /\ results' = Append(results,
                  WithQueryType(result[t][1].value, PairOf(pair_index).query_type))
            /\ pc' = [pc EXCEPT ![t] = "c_loop"]
       ELSE /\ results' = results
            /\ pc' = [pc EXCEPT ![t] = "c_raised"]
    /\ request_log' = Append(request_log,
          [backend |-> extractor.model_name, at |-> start_time[t]])
    /\ UNCHANGED <<clock, limVars, calls, extVars, parseVars, fnVars, query_list,
                   model_types, pair_index, metrics, summary, recommendations,
                   data, field_count>>

\* the loops are over: return results
CompareReturn(t) ==
    /\ pc[t] = "c_loop"
    /\ pair_index = total_extractions
    /\ pc' = [pc EXCEPT ![t] = "c_returned"]
    /\ UNCHANGED <<clock, limVars, calls, appVars>>

\* _compare after a parse without error: results = [], before the loops
InitCompare ==
    /\ clock \in ClockStarts
    /\ requests_per_minute = anthropic_rpm
    /\ last_request_time = 0
    /\ lock_holder = {}
    /\ lock_waiters = <<>>
    /\ now = [t \in Tasks |-> 0]
    /\ wake_at = [t \in Tasks |-> 0]
    /\ grants = <<>>
    /\ pc = [t \in Tasks |-> IF t = 1 THEN "c_loop" ELSE "idle"]
    /\ calls = 0
    /\ extractor = CreateExtractor(CLAUDE_SONNET)
    /\ ExtractIdle
    /\ ParserIdle
    /\ AuxIdle
    /\ query_list \in QueryLists
    /\ model_types \in ModelLists
    /\ pair_index = 0
    /\ results = <<>>
    /\ metrics = None
    /\ summary = None
    /\ recommendations = None
    /\ data = None
    /\ field_count = None

NextCompare ==
    \/ SleepTick
    \/ \E t \in Tasks : CompareNext(t)
    \/ \E t \in Tasks : ExtractAttempt(t)
    \/ \E t \in Tasks : AcquireCheck(t)
    \/ \E t \in Tasks : AcquireRecord(t)
    \/ \E t \in Tasks : ExtractRequest(t)
    \/ \E t \in Tasks : ExtractResponse(t, CompareOutcomes)
    \/ \E t \in Tasks : CompareAppend(t)
    \/ \E t \in Tasks : CompareReturn(t)

SpecCompare == InitCompare /\ [][NextCompare]_vars

\* ---------------------------------------------------------- comparator
MaxItems == 2          \* most items in a mapping or sequence of the values tried
MaxResults == 3        \* most results accumulated in a comparator

\* JSON values: null, a non-null scalar, a mapping (items: its values, in
\* order) or a sequence (items: its elements)
JNull == [type |-> "null", items |-> <<>>]
JScalar == [type |-> "scalar", items |-> <<>>]
\* a scalar that is falsy in Python: 0, "" or false
JFalsy == [type |-> "falsy", items |-> <<>>]
JDict(items) == [type |-> "dict", items |-> items]
JList(items) == [type |-> "list", items |-> items]

SeqsUpTo(S, n) == UNION {[1..k -> S] : k \in 0..n}
Containers(S) ==
    {[type |-> ty, items |-> its] : ty \in {"dict", "list"}, its \in SeqsUpTo(S, MaxItems)}

\* the values _count_fields is tried on: nesting up to two levels
JsonLeaves == {JNull, JScalar}
JsonLevel1 == JsonLeaves \cup Containers(JsonLeaves)
JsonValues == JsonLeaves \cup Containers(JsonLevel1)

RECURSIVE CountFields(_)
RECURSIVE CountItems(_, _)

\* the for loops of _count_fields over the values of a mapping (in_dict) or
\* the elements of a sequence
CountItems(items, in_dict) ==
    IF items = <<>> THEN 0
    ELSE LET value == Head(items)
             one == IF in_dict
                    THEN IF value.type # "null"
                         THEN IF value.type \in {"dict", "list"}
                              THEN CountFields(value)
                              ELSE 1
                         ELSE 0
                    ELSE CountFields(value)
         IN  one + CountItems(Tail(items), in_dict)

\* ResultComparator._count_fields
CountFields(value) ==
    IF value.type = "null" THEN 0
    ELSE IF value.type = "dict" THEN CountItems(value.items, TRUE)
    ELSE IF value.type = "list" THEN CountItems(value.items, FALSE)
    ELSE 0

\* _count_fields(data) is called
CountFieldsCall ==
    /\ data # None
    /\ field_count = None
    /\ field_count' = Some(CountFields(data[1]))
    /\ UNCHANGED <<clock, limVars, pc, calls, extVars, parseVars, auxVars, query_list,
                   model_types, pair_index, results, metrics, summary,
                   recommendations, data>>

InitCountFields ==
    /\ clock = 0
    /\ LimiterInit
    /\ requests_per_minute = openai_rpm
    /\ pc = [t \in Tasks |-> "idle"]
    /\ calls = 0
    /\ extractor = CreateExtractor(CLAUDE_SONNET)
    /\ ExtractIdle
    /\ ParserIdle
    /\ AuxIdle
    /\ query_list = <<>>
    /\ model_types = <<>>
    /\ pair_index = 0
    /\ results = <<>>
    /\ metrics = None
    /\ summary = None
    /\ recommendations = None
    /\ data \in {Some(v) : v \in JsonValues}
    /\ field_count = None

NextCountFields == CountFieldsCall

SpecCountFields == InitCountFields /\ [][NextCountFields]_vars

\* ------------------------------------------ metrics, summary and report
\* a ratio n/d as <<n, d>>; completeness, mean time and cost are compared,
\* added and divided as ratios
FracLess(a, b) == a[1] * b[2] < b[1] * a[2]
FracEq(a, b) == a[1] * b[2] = b[1] * a[2]
RECURSIVE Gcd(_, _)
Gcd(m, n) == IF n = 0 THEN m ELSE Gcd(n, m % n)
\* the same ratio in lowest terms
Reduced(a) ==
    LET g == Gcd(a[1], a[2]) IN IF g = 0 THEN a ELSE <<a[1] \div g, a[2] \div g>>
FracAdd(a, b) == Reduced(<<a[1] * b[2] + b[1] * a[2], a[2] * b[2]>>)
\* min(a, b) of Python: b only when it is smaller
FracMin(a, b) == IF FracLess(b, a) THEN b ELSE a

\* sum(...) of integers, and of ratios, left to right from 0
RECURSIVE SumSeq(_)
SumSeq(seq) == IF seq = <<>> THEN 0 ELSE Head(seq) + SumSeq(Tail(seq))
RECURSIVE FracSumFrom(_, _)
FracSumFrom(acc, seq) ==
    IF seq = <<>> THEN acc ELSE FracSumFrom(FracAdd(acc, Head(seq)), Tail(seq))
FracSum(seq) == FracSumFrom(<<0, 1>>, seq)

\* _get_expected_field_counts().get(query_type, 50)
ExpectedFieldCounts(query_type) ==
    CASE query_type = 1 -> 15
      [] query_type = 2 -> 50
      [] query_type = 3 -> 40
      [] query_type = 4 -> 60
      [] query_type = 5 -> 70
      [] OTHER -> 50

\* if result.extracted_data: Python truthiness of Optional data
TruthyData(opt) ==
    /\ opt # None
    /\ CASE opt[1].type \in {"dict", "list"} -> opt[1].items # <<>>
         [] opt[1].type = "scalar" -> TRUE
         [] OTHER -> FALSE

\* (mutant) fields_extracted starts at 1 instead of 0
FieldsExtractedStartsAtOne(r) ==
    IF TruthyData(r.extracted_data) THEN CountFields(r.extracted_data[1]) ELSE 1

\* calculate_metrics: fields_extracted of one result
FieldsExtracted(r) ==
    IF TruthyData(r.extracted_data) THEN CountFields(r.extracted_data[1]) ELSE 0

\* (mutant) the ratio is not capped
CompletenessUncapped(fields_extracted, total_fields) ==
    IF total_fields > 0 THEN <<fields_extracted, total_fields>> ELSE <<0, 1>>

\* calculate_metrics: completeness = min(fields_extracted / total_fields, 1.0)
Completeness(fields_extracted, total_fields) ==
    IF total_fields > 0
    THEN FracMin(<<fields_extracted, total_fields>>, <<1, 1>>)
    ELSE <<0, 1>>

\* calculate_metrics: the ComparisonMetrics of one result
MetricsOf(r) ==
    [ model |-> r.model,
      query_type |-> r.query_type,
      fields_extracted |-> FieldsExtracted(r),
      total_fields_possible |-> ExpectedFieldCounts(r.query_type),
      completeness_score |->
          Completeness(FieldsExtracted(r), ExpectedFieldCounts(r.query_type)),
      extraction_time |-> r.extraction_time,
      total_tokens |-> r.total_tokens,
      cost_usd |-> r.cost_usd,
      error |-> r.error ]

\* ResultComparator.calculate_metrics
CalculateMetrics(rs) == [i \in 1..Len(rs) |-> MetricsOf(rs[i])]

\* model.split('-')[-1] if '-' in model else model, as characters
ModelGroup(model) ==
    LET cs == Chars(model)
        dashes == {i \in 1..Len(cs) : cs[i] = "-"}
    IN  IF dashes = {} THEN cs
        ELSE SubSeq(cs, (CHOOSE i \in dashes : \A j \in dashes : j <= i) + 1, Len(cs))

\* the keys of by_model, in the order they were inserted
RECURSIVE ByModelKeys(_, _)
ByModelKeys(ms, keys) ==
    IF ms = <<>> THEN keys
    ELSE LET model_key == ModelGroup(Head(ms).model)
         IN  ByModelKeys(Tail(ms),
                         IF \E i \in 1..Len(keys) : keys[i] = model_key
                         THEN keys
                         ELSE Append(keys, model_key))

\* by_model[model_key]
ByModel(ms, model_key) ==
    LET InGroup(m) == ModelGroup(m.model) = model_key
    IN  SelectSeq(ms, InGroup)

\* (mutant) every metric of the group is taken as successful
SuccessfulAll(model_metrics) == model_metrics

\* successful = [m for m in model_metrics if not m.error]
Successful(model_metrics) ==
    LET NoError(m) == ~Truthy(m.error)
    IN  SelectSeq(model_metrics, NoError)

\* (mutant) a group is entered whether or not it has a successful result
GroupAlwaysIncluded(successful) == TRUE

\* if successful:
GroupIncluded(successful) == successful # <<>>

\* summary[model]: a mean is <<sum, count>>, undefined (division by zero)
\* when the count is 0
GroupStats(model_key, model_metrics) ==
    LET successful == Successful(model_metrics)
        scores == [i \in 1..Len(successful) |-> successful[i].completeness_score]
        times == [i \in 1..Len(successful) |-> successful[i].extraction_time]
        tokens == [i \in 1..Len(successful) |-> successful[i].total_tokens]
        costs == [i \in 1..Len(successful) |-> successful[i].cost_usd]
    IN  [ model |-> model_key,
          avg_completeness |->
              <<FracSum(scores)[1], FracSum(scores)[2] * Len(successful)>>,
          avg_time |-> <<SumSeq(times), Len(successful)>>,
          total_tokens |-> SumSeq(tokens),
          total_cost |-> SumSeq(costs),
          successful_extractions |-> Len(successful),
          failed_extractions |-> Len(model_metrics) - Len(successful) ]

\* ResultComparator.generate_summary_stats: the entries of the summary, in
\* the order they were inserted
GenerateSummaryStats(rs) ==
    LET ms == CalculateMetrics(rs)
        keys == ByModelKeys(ms, <<>>)
        Included(model_key) == GroupIncluded(Successful(ByModel(ms, model_key)))
        kept == SelectSeq(keys, Included)
    IN  IF ms = <<>> THEN <<>>
        ELSE [i \in 1..Len(kept) |-> GroupStats(kept[i], ByModel(ms, kept[i]))]

\* str.upper() on one character, and on a string
UpperChar(c) ==
    CASE c = "p" -> "P" [] c = "r" -> "R" [] c = "e" -> "E" [] c = "v" -> "V"
      [] c = "i" -> "I" [] c = "w" -> "W" [] c = "t" -> "T" [] c = "u" -> "U"
      [] c = "b" -> "B" [] c = "o" -> "O" [] OTHER -> c
Upper(s) == [i \in 1..Len(s) |-> UpperChar(s[i])]

\* (mutant) a later item replaces the best one also when it only ties
ExceedsOrTies(a, b) == ~FracLess(a, b)

\* max() and min() keep the item found first: a later one replaces it only
\* when its key is strictly greater (max) or strictly smaller (min)
Exceeds(a, b) == FracLess(b, a)

\* max(items, key=...): the index of the item returned
PyMaxIndex(keys) ==
    LET best[k \in 1..Len(keys)] ==
            IF k = 1 THEN 1
            ELSE IF Exceeds(keys[k], keys[best[k - 1]]) THEN k ELSE best[k - 1]
    IN  best[Len(keys)]

\* (mutant) min keeps the item found last among the smallest
PyMinIndexLast(keys) ==
    LET best[k \in 1..Len(keys)] ==
            IF k = 1 THEN 1
            ELSE IF FracLess(keys[best[k - 1]], keys[k]) THEN best[k - 1] ELSE k
    IN  best[Len(keys)]

\* min(items, key=...): the index of the item returned
PyMinIndex(keys) ==
    LET best[k \in 1..Len(keys)] ==
            IF k = 1 THEN 1
            ELSE IF Exceeds(keys[best[k - 1]], keys[k]) THEN k ELSE best[k - 1]
    IN  best[Len(keys)]

\* generate_markdown_report: the names in the three recommendation lines
\* (best completeness, most cost-effective, fastest); none when the summary
\* is empty
Recommendations(summary_stats) ==
    IF summary_stats = <<>> THEN <<>>
    ELSE LET n == Len(summary_stats)
             best_completeness ==
                 PyMaxIndex([i \in 1..n |-> summary_stats[i].avg_completeness])
             best_cost ==
                 PyMinIndex([i \in 1..n |-> <<summary_stats[i].total_cost, 1>>])
             best_speed ==
                 PyMinIndex([i \in 1..n |-> summary_stats[i].avg_time])
         IN  << Upper(summary_stats[best_completeness].model),
                Upper(summary_stats[best_cost].model),
                Upper(summary_stats[best_speed].model) >>

\* the results a comparator is fed: what extract() returns for these
\* backends, query types, extracted data, elapsed times and token usages.
\* Their completeness scores are 0, 1/4, 1/2 and 1 and their times whole
\* seconds, which the float arithmetic of the code adds up without rounding
Scalars(n) == [i \in 1..n |-> JScalar]
SampleOutcome(u) ==
    [kind |-> "ok", text |-> <<"{", "kv", "}">>, input_tokens |-> u[1],
     output_tokens |-> u[2], total_tokens |-> u[1] + u[2], message |-> ""]
SuccessSample(model_type, query_type, extracted, elapsed, u) ==
    WithQueryType([SuccessResult(CreateExtractor(model_type), SampleOutcome(u), elapsed)
                      EXCEPT !.extracted_data = extracted],
                  query_type)
ErrorSample(model_type, query_type, elapsed, error_msg) ==
    WithQueryType(ErrorResult(CreateExtractor(model_type), elapsed, error_msg),
                  query_type)
ResultSamples ==
    { SuccessSample(CLAUDE_SONNET, 3, Some(JDict(Scalars(10))), 2, <<1000, 500>>),
      SuccessSample(CLAUDE_SONNET, 1, Some(JDict(Scalars(16))), 1, <<3, 1>>),
      SuccessSample(CLAUDE_SONNET, 9,
                    Some(JDict(<<JScalar, JNull, JDict(Scalars(24))>>)), 3, <<0, 0>>),
      ErrorSample(CLAUDE_SONNET, 1, 1, "Timeout after 120s"),
      SuccessSample(CLAUDE_HAIKU, 3, Some(JDict(Scalars(10))), 2, <<1000, 500>>),
      SuccessSample(CLAUDE_HAIKU, 9, Some(JDict(Scalars(51))), 1, <<0, 0>>),
      ErrorSample(CLAUDE_HAIKU, 2, 0, "rate limited"),
      SuccessSample(GPT4, 3, Some(JDict(Scalars(10))), 2, <<0, 0>>),
      SuccessSample(GPT4, 2, None, 1, <<3, 1>>),
      SuccessSample(GPT4, 3, Some(JFalsy), 1, <<0, 0>>),
      ErrorSample(GPT4, 1, 2, "rate limited"),
      WithQueryType([SuccessResult([family |-> "claude", model_name |-> env_sonnet_model],
                                   SampleOutcome(<<3, 1>>), 1)
                        EXCEPT !.extracted_data = Some(JDict(Scalars(10)))],
                    3) }

\* comparator.add_result(result)
AddResult(r) ==
    /\ Len(results) < MaxResults
    /\ metrics = None /\ summary = None /\ recommendations = None
    /\ results' = Append(results, r)
    /\ UNCHANGED <<clock, limVars, pc, calls, extVars, parseVars, auxVars, query_list,
                   model_types, pair_index, metrics, summary, recommendations,
                   data, field_count>>

\* comparator.calculate_metrics()
CalculateMetricsCall ==
    /\ metrics = None
    /\ metrics' = Some(CalculateMetrics(results))
    /\ UNCHANGED <<clock, limVars, pc, calls, extVars, parseVars, auxVars, query_list,
                   model_types, pair_index, results, summary, recommendations,
                   data, field_count>>

\* comparator.generate_summary_stats()
GenerateSummaryStatsCall ==
    /\ summary = None
    /\ summary' = Some(GenerateSummaryStats(results))
    /\ UNCHANGED <<clock, limVars, pc, calls, extVars, parseVars, auxVars, query_list,
                   model_types, pair_index, results, metrics, recommendations,
                   data, field_count>>

\* comparator.generate_markdown_report(): the recommendations section
GenerateMarkdownReportCall ==
    /\ recommendations = None
    /\ recommendations' = Some(Recommendations(GenerateSummaryStats(results)))
    /\ UNCHANGED <<clock, limVars, pc, calls, extVars, parseVars, auxVars, query_list,
                   model_types, pair_index, results, metrics, summary,
                   data, field_count>>

\* comparator = ResultComparator()
InitComparator ==
    /\ clock = 0
    /\ LimiterInit
    /\ requests_per_minute = openai_rpm
    /\ pc = [t \in Tasks |-> "idle"]
    /\ calls = 0
    /\ extractor = CreateExtractor(CLAUDE_SONNET)
    /\ ExtractIdle
    /\ ParserIdle
    /\ AuxIdle
    /\ CompareIdle

NextComparator ==
    \/ \E r \in ResultSamples : AddResult(r)
    \/ CalculateMetricsCall
    \/ GenerateSummaryStatsCall
    \/ GenerateMarkdownReportCall

SpecComparator == InitComparator /\ [][NextComparator]_vars

Next ==
    \/ Tick
    \/ \E t \in Tasks : CallAcquire(t)
    \/ \E t \in Tasks : AcquireCheck(t)
    \/ \E t \in Tasks : AcquireRecord(t)

Spec == Init /\ [][Next]_vars

\* ---------------------------------- the limiter under a fair event loop
\* time passes: up to MaxTime, and beyond it for as long as a task is in its
\* asyncio.sleep(wait_time)
TickWhileAsleep ==
    /\ \/ clock < MaxTime
       \/ \E t \in Tasks : pc[t] = "record" /\ clock < wake_at[t]
    /\ clock' = clock + 1
    /\ UNCHANGED <<limVars, pc, calls, appVars>>

NextLive ==
    \/ TickWhileAsleep
    \/ \E t \in Tasks : CallAcquire(t)
    \/ \E t \in Tasks : AcquireCheck(t)
    \/ \E t \in Tasks : AcquireRecord(t)

\* the event loop runs every task that is ready (it holds the lock, or its
\* sleep is over), and time does not stop
SpecLive ==
    /\ Init
    /\ [][NextLive]_vars
    /\ WF_vars(TickWhileAsleep)
    /\ \A t \in Tasks : WF_vars(AcquireCheck(t)) /\ WF_vars(AcquireRecord(t))

\* ------------------------------------- compare: the parse, then the loops
\* _compare is still inside parser.parse(...): no pair was started
InParse == pair_index = 0

\* parser = PDFParser(); parse_result = await parser.parse(pdf_file, ...)
CompareParse(t) ==
    /\ t = 1
    /\ calls = 0
    /\ ParseCall(t)

\* if parse_result.error: return None; else results = [] and the loops
\* start. An exception out of parse() leaves _compare
CompareGate(t) ==
    /\ pc[t] = "p_done"
    /\ InParse
    /\ IF result[t][1].kind = "raised"
       THEN /\ parsed_results' = parsed_results
            /\ pc' = [pc EXCEPT ![t] = "c_raised"]
       ELSE /\ parsed_results' = Some(<<result[t][1].value>>)
            /\ pc' = [pc EXCEPT ![t] =
                  IF Truthy(result[t][1].value.error) THEN "c_none" ELSE "c_loop"]
    /\ UNCHANGED <<clock, limVars, calls, extVars, client, use_api,
                   max_concurrent, sem_value, finished, cmpVars, auxVars>>

\* the compare command: PDFParser() with or without a client, the file, the
\* caller's query types and backends
InitCompareFlow ==
    /\ clock \in ClockStarts
    /\ LimiterInit
    /\ requests_per_minute = unstructured_rpm
    /\ pc = [t \in Tasks |-> "idle"]
    /\ calls = 0
    /\ extractor = CreateExtractor(CLAUDE_SONNET)
    /\ attempt = [t \in Tasks |-> 0]
    /\ backend_calls = [t \in Tasks |-> 0]
    /\ start_time = [t \in Tasks |-> 0]
    /\ outcome = [t \in Tasks |-> NoParseOutcome]
    /\ responded_at = [t \in Tasks |-> 0]
    /\ result = [t \in Tasks |-> None]
    /\ client \in BOOLEAN
    /\ use_api \in BOOLEAN
    /\ max_concurrent = 0
    /\ sem_value = 0
    /\ parsed_results = None
    /\ finished = <<>>
    /\ AuxIdle
    /\ query_list \in QueryLists
    /\ model_types \in ModelLists
    /\ pair_index = 0
    /\ results = <<>>
    /\ metrics = None
    /\ summary = None
    /\ recommendations = None
    /\ data = None
    /\ field_count = None

NextCompareFlow ==
    \/ SleepTick
    \/ \E t \in Tasks : CompareParse(t)
    \/ \E t \in Tasks : InParse /\ ParseAttempt(t)
    \/ \E t \in Tasks : AcquireCheck(t)
    \/ \E t \in Tasks : AcquireRecord(t)
    \/ \E t \in Tasks : InParse /\ ParseRequest(t)
    \/ \E t \in Tasks : InParse /\ ParseResponse(t, BatchApiOutcomes)
    \/ \E t \in Tasks : InParse /\ ParseLocal(t, BatchLocalOutcomes)
    \/ \E t \in Tasks : CompareGate(t)
    \/ \E t \in Tasks : CompareNext(t)
    \/ \E t \in Tasks : ~InParse /\ ExtractAttempt(t)
    \/ \E t \in Tasks : ~InParse /\ ExtractRequest(t)
    \/ \E t \in Tasks : ~InParse /\ ExtractResponse(t, CompareOutcomes)
    \/ \E t \in Tasks : CompareAppend(t)
    \/ \E t \in Tasks : CompareReturn(t)

SpecCompareFlow == InitCompareFlow /\ [][NextCompareFlow]_vars

\* ------------------------------------------- _calculate_cost on its own
\* the token counts and the model identifiers a call is made with
TokenCounts == 0..MaxTokens
CostModels ==
    {claude_sonnet_model, claude_haiku_model, openai_gpt4_model,
     custom_openai_model}

\* self._calculate_cost(prompt_tokens, completion_tokens, model)
CalculateCostCall ==
    /\ call_args # None
    /\ call_value = None
    /\ \E cost \in CalculateCostOutcomes(call_args[1][1], call_args[1][2],
                                         call_args[1][3]) :
          call_value' = Some(cost)
    /\ UNCHANGED <<clock, limVars, pc, calls, extVars, parseVars, cmpVars,
                   call_args, request_log>>

InitCost ==
    /\ clock = 0
    /\ LimiterInit
    /\ requests_per_minute = openai_rpm
    /\ pc = [t \in Tasks |-> "idle"]
    /\ calls = 0
    /\ extractor \in {CHOOSE e \in Extractors : TRUE}
    /\ ExtractIdle
    /\ ParserIdle
    /\ CompareIdle
    /\ call_args \in {Some(<<p, c, m>>) :
                         p \in TokenCounts, c \in TokenCounts, m \in CostModels}
    /\ call_value = None
    /\ request_log = <<>>

NextCost == CalculateCostCall

SpecCost == InitCost /\ [][NextCost]_vars

\* -------------------------------------- _parse_json_response on its own
\* the response texts a call is made with: every text of at most MaxTextLen
\* tokens, and the longer texts the backend may answer with
JsonTokens == {"{", "}", "kv", "null", "word", "fence", "\n"}
JsonTexts == SeqsUpTo(JsonTokens, MaxTextLen) \cup ResponseTexts

\* self._parse_json_response(response_text)
ParseJsonResponseCall ==
    /\ call_args # None
    /\ call_value = None
    /\ call_value' = Some(ParseJsonResponse(call_args[1]))
    /\ UNCHANGED <<clock, limVars, pc, calls, extVars, parseVars, cmpVars,
                   call_args, request_log>>

InitJson ==
    /\ clock = 0
    /\ LimiterInit
    /\ requests_per_minute = openai_rpm
    /\ pc = [t \in Tasks |-> "idle"]
    /\ calls = 0
    /\ extractor \in {CHOOSE e \in Extractors : TRUE}
    /\ ExtractIdle
    /\ ParserIdle
    /\ CompareIdle
    /\ call_args \in {Some(text) : text \in JsonTexts}
    /\ call_value = None
    /\ request_log = <<>>

NextJson == ParseJsonResponseCall

SpecJson == InitJson /\ [][NextJson]_vars

\* ------------------------------------------ compare_single_query_results
\* compare_single_query_results(results, query_type): the dictionary
\* returned; max() of an empty list raises ValueError
CompareSingleQueryResults(rs, query_type) ==
    LET ms == CalculateMetrics(rs)
        n  == Len(ms)
    IN  IF n = 0
        THEN [kind |-> "raised", value |-> "ValueError"]
        ELSE [kind |-> "returned",
              value |->
                [ query_type |-> query_type,
                  models_compared |-> Len(rs),
                  metrics |-> [i \in 1..n |->
                      [ model |-> ms[i].model,
                        completeness |-> ms[i].completeness_score,
                        time |-> ms[i].extraction_time,
                        cost |-> ms[i].cost_usd,
                        tokens |-> ms[i].total_tokens ]],
                  best_by_completeness |->
                      ms[PyMaxIndex([i \in 1..n |-> ms[i].completeness_score])].model,
                  best_by_cost |->
                      ms[PyMinIndex([i \in 1..n |-> <<ms[i].cost_usd, 1>>])].model,
                  best_by_speed |->
                      ms[PyMinIndex([i \in 1..n |-> <<ms[i].extraction_time, 1>>])].model ]]

\* comparison = compare_single_query_results(results, query_type)
CompareSingleQueryResultsCall ==
    /\ call_args # None
    /\ call_value = None
    /\ call_value' = Some(CompareSingleQueryResults(call_args[1][1], call_args[1][2]))
    /\ UNCHANGED <<clock, limVars, pc, calls, extVars, parseVars, cmpVars,
                   call_args, request_log>>

InitSingleQuery ==
    /\ clock = 0
    /\ LimiterInit
    /\ requests_per_minute = openai_rpm
    /\ pc = [t \in Tasks |-> "idle"]
    /\ calls = 0
    /\ extractor = CreateExtractor(CLAUDE_SONNET)
    /\ ExtractIdle
    /\ ParserIdle
    /\ CompareIdle
    /\ call_args \in {Some(<<rs, 1>>) : rs \in SeqsUpTo(ResultSamples, MaxResults)}
    /\ call_value = None
    /\ request_log = <<>>

NextSingleQuery == CompareSingleQueryResultsCall

SpecSingleQuery == InitSingleQuery /\ [][NextSingleQuery]_vars

\* ----------------------------------------------------------------- claims
\* tasks between reading the clock and recording last_request_time
InCritical == {t \in Tasks : pc[t] \in {"locked", "record"}}

\* C1: any two consecutively granted acquire() calls on one RateLimiter have
\* recorded grant times at least 60/R seconds apart.
C1_GrantSpacing ==
    \A i \in 1..(Len(grants) - 1) : grants[i + 1] - grants[i] >= min_interval

\* a second grant was recorded after a sleep that a concurrent caller queued for
C1_Witness ==
    /\ Len(grants) >= 2
    /\ grants[2] - grants[1] = min_interval
    /\ min_interval > 1

\* C2: at most one caller is between reading the clock and recording
\* last_request_time, and that caller holds the limiter's lock.
C2_MutualExclusion ==
    /\ Cardinality(InCritical) <= 1
    /\ InCritical \subseteq lock_holder

\* one caller sleeps inside the critical section while another waits for it
C2_Witness ==
    \E t, u \in Tasks :
        /\ pc[t] = "record"
        /\ wake_at[t] > now[t]
        /\ pc[u] = "lock_wait"
\* the calls of extract() that have ended
ExtractDone == {t \in Tasks : pc[t] = "x_done" /\ result[t] # None}
\* the backend call of t failed: it timed out or the client raised
BackendFailed(t) == outcome[t].kind \in {"timeout", "error"}

\* C3: when the backend call times out or raises, extract() calls the backend
\* again, up to 3 attempts in total, and the error-bearing result is returned
\* only after the attempts are exhausted.
C3_RetriesBeforeError ==
    \A t \in ExtractDone :
        BackendFailed(t) => backend_calls[t] = MaxAttempts

\* C4: every extract() call ends by returning an ExtractionResult; a timeout
\* or an exception of the backend call never leaves extract(), it becomes a
\* result whose error is set, for the failed call only.
C4_AlwaysReturnsResult ==
    \A t \in ExtractDone :
        /\ result[t][1].kind = "returned"
        /\ BackendFailed(t) <=> Truthy(result[t][1].value.error)

\* a call whose backend request timed out has ended with an error result
C4_Witness ==
    \E t \in ExtractDone :
        /\ outcome[t].kind = "timeout"
        /\ result[t][1].kind = "returned"
        /\ result[t][1].value.error = Some("Timeout after 120s")

\* C5: every returned ExtractionResult with error set has no extracted_data,
\* zero prompt, completion and total tokens, and zero cost.
C5_ErrorResultIsEmpty ==
    \A t \in ExtractDone :
        (result[t][1].kind = "returned" /\ result[t][1].value.error # None)
        => /\ result[t][1].value.extracted_data = None
           /\ result[t][1].value.prompt_tokens = 0
           /\ result[t][1].value.completion_tokens = 0
           /\ result[t][1].value.total_tokens = 0
           /\ result[t][1].value.cost_usd = 0

\* an error result was returned some time after the call started
C5_Witness ==
    \E t \in ExtractDone :
        /\ result[t][1].kind = "returned"
        /\ result[t][1].value.error # None
        /\ result[t][1].value.extraction_time > 0

\* none of the three parsing attempts succeeds on the text
AllAttemptsFail(text) ==
    /\ ~JsonLoads(text).ok
    /\ FencedBlock(text).found => ~JsonLoads(FencedBlock(text).group).ok
    /\ BraceSpan(text).found => ~JsonLoads(BraceSpan(text).group).ok

\* C6: a successful backend answer whose text none of the parsing attempts
\* accepts gives a result with extracted_data absent, error not set, and the
\* response's token counts, cost and elapsed time recorded.
C6_ParseFailureIsNotError ==
    \A t \in ExtractDone :
        (outcome[t].kind = "ok" /\ AllAttemptsFail(outcome[t].text))
        => /\ result[t][1].kind = "returned"
           /\ result[t][1].value.extracted_data = None
           /\ result[t][1].value.error = None
           /\ result[t][1].value.prompt_tokens = outcome[t].input_tokens
           /\ result[t][1].value.completion_tokens = outcome[t].output_tokens
           /\ result[t][1].value.total_tokens =
                 outcome[t].input_tokens + outcome[t].output_tokens
           /\ result[t][1].value.cost_usd =
                 CalculateCost(outcome[t].input_tokens, outcome[t].output_tokens,
                               extractor.model_name)
           /\ result[t][1].value.extraction_time = responded_at[t] - start_time[t]

\* a priced backend answered prose after some time, and tokens were used
C6_Witness ==
    \E t \in ExtractDone :
        /\ outcome[t].kind = "ok"
        /\ outcome[t].text = <<"word">>
        /\ result[t][1].value.extracted_data = None
        /\ result[t][1].value.error = None
        /\ result[t][1].value.total_tokens > 0
        /\ result[t][1].value.cost_usd > 0
        /\ result[t][1].value.extraction_time > 0
\* the calls of parse() that have ended
ParseDone == {t \in Tasks : pc[t] = "p_done" /\ result[t] # None}

\* C7: parse() never raises to its caller: on a missing file, a timeout, a
\* transport or SDK error, a missing offline library or any other exception
\* during the request it returns a ParseResult with error populated and text
\* empty.
C7_FailureGivesErrorResult ==
    \A t \in ParseDone :
        outcome[t].kind \in {"missing", "timeout", "sdk_error", "error", "import_error"}
        => /\ result[t][1].kind = "returned"
           /\ Truthy(result[t][1].value.error)
           /\ result[t][1].value.text = <<>>

\* C8: when the remote parse request fails with a timeout or a service
\* error, the request is issued again, up to 3 attempts in total, and the
\* error of the returned ParseResult is that of the final attempt.
C8_RemoteRequestRetried ==
    \A t \in ParseDone :
        outcome[t].kind \in {"timeout", "sdk_error"}
        => /\ backend_calls[t] = MaxAttempts
           /\ result[t][1].kind = "returned"
           /\ result[t][1].value.error = Some(StrOfException(outcome[t]))

\* every ParseResult that parse() has returned or parse_batch() has listed
ParseResults ==
    {result[t][1].value : t \in {u \in Tasks : /\ pc[u] \in {"p_done", "b_finished"}
                                               /\ result[u] # None
                                               /\ result[u][1].kind = "returned"}}
    \cup (IF parsed_results = None THEN {}
          ELSE {parsed_results[1][t] : t \in Tasks})

\* error is set iff text is empty and elements and token_count are absent
ErrorIffEmpty(r) ==
    r.error # None <=> (r.text = <<>> /\ r.elements = None /\ r.token_count = None)

\* C9 as stated: error is set iff text is empty and elements and token_count
\* are absent; in particular a parse that succeeds never yields empty text
\* with elements or token_count present, and an error result never carries
\* elements or a token count.
C9_Original ==
    \A r \in ParseResults :
        /\ ErrorIffEmpty(r)
        /\ r.error = None
           => ~(r.text = <<>> /\ (r.elements # None \/ r.token_count # None))
        /\ r.error # None => (r.elements = None /\ r.token_count = None)

\* C9 as amended: error is set (not None) iff text is empty and elements and
\* token_count are absent; an error result never carries elements or a token
\* count; a parse that succeeds carries both, also when its text is empty.
C9_ErrorIffNoElements ==
    \A r \in ParseResults :
        /\ ErrorIffEmpty(r)
        /\ r.error # None => (r.elements = None /\ r.token_count = None)
        /\ r.error = None => (r.elements # None /\ r.token_count # None)

\* the batch has returned a list holding an error result and a successful
\* result whose text is empty
C9_Witness ==
    /\ parsed_results # None
    /\ \E r \in ParseResults : r.error # None /\ r.text = <<>> /\ r.elements = None
    /\ \E r \in ParseResults :
          r.error = None /\ r.text = <<>> /\ r.elements # None /\ r.token_count = Some(0)

\* the parse operations inside the admission gate
InFlight == {t \in Tasks : pc[t] \notin {"b_queued", "b_finished"}}

\* C10: during parse_batch(files, max_concurrent = N), N >= 1, at most N
\* parse operations are in flight at every moment, and an operation that has
\* finished, by returning or by raising, has given its slot back.
C10_AtMostNInFlight ==
    /\ Cardinality(InFlight) <= max_concurrent
    /\ sem_value = max_concurrent - Cardinality(InFlight)

\* fewer slots than files: a parse has raised and left, and the gate is full
\* again
C10_Witness ==
    /\ max_concurrent < NumTasks
    /\ Cardinality(InFlight) = max_concurrent
    /\ \E t \in Tasks :
          pc[t] = "b_finished" /\ result[t] # None /\ result[t][1].kind = "raised"
\* C11: parse_batch returns a sequence as long as file_paths whose element
\* i is the result for file_paths[i], in whatever order the concurrent
\* parses ended.
C11_BatchKeepsInputOrder ==
    parsed_results # None
    => /\ DOMAIN parsed_results[1] = 1..NumTasks
       /\ \A i \in Tasks :
             /\ parsed_results[1][i].file_path = i
             /\ result[i][1].kind = "returned"
                => parsed_results[1][i] = result[i][1].value

\* the batch has returned, every parse returned a result, and the last file
\* was the first to end
C11_Witness ==
    /\ parsed_results # None
    /\ finished # <<>> /\ finished[1] = NumTasks
    /\ \A t \in Tasks : result[t][1].kind = "returned"

\* C12: in parse_batch, when the parsing task of one file raises, that
\* file's slot holds a synthesized ParseResult with a non-empty error and
\* empty text, the batch still returns (once every task has ended nothing
\* keeps it from returning), and every other slot holds the result its own
\* parse produced.
C12_RaiseIsIsolated ==
    /\ (parsed_results = None /\ \A t \in Tasks : pc[t] = "b_finished")
       => ENABLED BatchReturn
    /\ parsed_results # None
       => \A i \in Tasks :
             IF result[i][1].kind = "raised"
             THEN /\ parsed_results[1][i].file_path = i
                  /\ Truthy(parsed_results[1][i].error)
                  /\ parsed_results[1][i].text = <<>>
             ELSE parsed_results[1][i] = result[i][1].value

\* the batch has returned although a task raised, and another task's slot
\* holds the text its parse produced
C12_Witness ==
    /\ parsed_results # None
    /\ \E i \in Tasks : result[i][1].kind = "raised"
    /\ \E j \in Tasks :
          /\ result[j][1].kind = "returned"
          /\ parsed_results[1][j].error = None
          /\ parsed_results[1][j].text # <<>>
\* C13: given a parsed document, query types Q and backends M, the compare
\* orchestration returns exactly |Q| x |M| ExtractionResults, one per pair,
\* query type as the outer index and backend as the inner index, both in the
\* caller's order.
C13_CompareOrder ==
    /\ \A k \in 1..Len(results) :
          /\ results[k].query_type =
                query_list[((k - 1) \div Len(model_types)) + 1]
          /\ results[k].model =
                CreateExtractor(model_types[((k - 1) % Len(model_types)) + 1]).model_name
    /\ (\E t \in Tasks : pc[t] = "c_returned")
       => Len(results) = Len(query_list) * Len(model_types)

\* a comparison of two query types, given in descending order, with two
\* backends has returned
C13_Witness ==
    /\ \E t \in Tasks : pc[t] = "c_returned"
    /\ query_list = <<2, 1>>
    /\ Len(model_types) = 2
    /\ Len(results) = 4

\* the result that extract() owes for the backend outcome o: an error result
\* exactly when the call timed out or the backend raised
OwnResult(r, o) ==
    /\ r.error # None <=> o.kind \in {"timeout", "error"}
    /\ o.kind = "timeout" => r.error = Some("Timeout after 120s")
    /\ o.kind = "error" => r.error = Some(o.message)
    /\ o.kind = "ok" => r.total_tokens > 0

\* C14: in the compare orchestration a failed extraction of one pair
\* (timeout or backend exception) never keeps another pair from being
\* attempted and never changes another pair's result: every pair is
\* attempted exactly once, and the failed pair is in the output as an
\* error-bearing result.
C14_FailureIsIsolated ==
    /\ [](\A t \in Tasks : pc[t] # "c_raised")
    /\ []((\E t \in Tasks : pc[t] = "c_returned")
          => Len(results) = Len(query_list) * Len(model_types))
    /\ [][results' # results
          => /\ Len(results') = Len(results) + 1
             /\ SubSeq(results', 1, Len(results)) = results
             /\ pair_index = Len(results')
             /\ \A t \in Tasks :
                   pc[t] = "x_done"
                   => /\ backend_calls[t] = 1
                      /\ OwnResult(results'[Len(results')], outcome[t])]_vars

\* a comparison has returned four results, the first an error result and a
\* later one carrying extracted data
C14_Witness ==
    /\ \E t \in Tasks : pc[t] = "c_returned"
    /\ Len(results) = 4
    /\ results[1].error # None
    /\ \E k \in 2..4 : results[k].error = None /\ results[k].extracted_data # None
\* the reference count: null 0, a non-null scalar 1, a mapping the sum over
\* its non-null values, a sequence the sum over its elements
RECURSIVE ReferenceCount(_)
RECURSIVE ReferenceSum(_)
ReferenceSum(items) ==
    IF items = <<>> THEN 0
    ELSE ReferenceCount(Head(items)) + ReferenceSum(Tail(items))
ReferenceCount(value) ==
    IF value.type = "null" THEN 0
    ELSE IF value.type \in {"dict", "list"} THEN ReferenceSum(value.items)
    ELSE 1

\* C15: for every value built from null, scalars, mappings and sequences,
\* _count_fields equals the reference count: null 0, a non-null scalar 1
\* (also at top level and as an element of a sequence), a mapping the sum
\* over its non-null values, a sequence the sum over its elements.
C15_CountFieldsIsReference ==
    field_count # None => field_count[1] = ReferenceCount(data[1])
\* C16: for every accumulated result the completeness score of
\* calculate_metrics lies in [0, 1]; it equals min(fields_extracted /
\* expected, 1), expected being the table entry of the query type (50 for an
\* unlisted one), and it is exactly 1 when fields_extracted exceeds expected.
C16_CompletenessCapped ==
    metrics # None
    => /\ Len(metrics[1]) = Len(results)
       /\ \A i \in 1..Len(results) :
             LET m == metrics[1][i]
                 q == results[i].query_type
                 expected == IF q = 1 THEN 15 ELSE IF q = 2 THEN 50
                             ELSE IF q = 3 THEN 40 ELSE IF q = 4 THEN 60
                             ELSE IF q = 5 THEN 70 ELSE 50
                 score == m.completeness_score
             IN  /\ m.total_fields_possible = expected
                 /\ score[2] > 0 /\ 0 <= score[1] /\ score[1] <= score[2]
                 /\ IF m.fields_extracted < expected
                    THEN score[1] * expected = m.fields_extracted * score[2]
                    ELSE score[1] = score[2]
                 /\ m.fields_extracted > expected => score[1] = score[2]

\* metrics were computed for a result with more fields than expected, for
\* one with fewer, and for one of an unlisted query type
C16_Witness ==
    /\ metrics # None
    /\ \E i \in 1..Len(results) :
          metrics[1][i].fields_extracted > metrics[1][i].total_fields_possible
    /\ \E i \in 1..Len(results) :
          /\ metrics[1][i].fields_extracted > 0
          /\ metrics[1][i].fields_extracted < metrics[1][i].total_fields_possible
    /\ \E i \in 1..Len(results) : results[i].query_type \notin 1..5

\* C17: for every accumulated result whose error is set, calculate_metrics
\* reports fields_extracted = 0 and completeness_score = 0, and does not
\* raise (it returns one metric per result).
C17_ErrorGivesZeroMetrics ==
    metrics # None
    => /\ Len(metrics[1]) = Len(results)
       /\ \A i \in 1..Len(results) :
             results[i].error # None
             => /\ metrics[1][i].fields_extracted = 0
                /\ metrics[1][i].completeness_score[1] = 0
                /\ metrics[1][i].completeness_score[2] > 0
                /\ metrics[1][i].error = results[i].error

\* metrics were computed for an error result standing between two results
\* with data
C17_Witness ==
    /\ metrics # None
    /\ Len(results) = 3
    /\ results[2].error # None
    /\ metrics[1][1].fields_extracted > 0
    /\ metrics[1][3].fields_extracted > 0
\* the groups of the accumulated results, the results of a group, and its
\* error-free results, by index in results
RefKeys == {ModelGroup(results[i].model) : i \in 1..Len(results)}
RefGroupIdx(key) == {i \in 1..Len(results) : ModelGroup(results[i].model) = key}
RefOkIdx(key) == {i \in RefGroupIdx(key) : results[i].error = None}
RefPresent == {key \in RefKeys : RefOkIdx(key) # {}}

\* the sum of f over the indices in S
RECURSIVE SetSum(_, _)
SetSum(f, S) ==
    IF S = {} THEN 0
    ELSE LET x == CHOOSE x \in S : TRUE IN f[x] + SetSum(f, S \ {x})

\* 4200 times the completeness of result i (4200 is a common multiple of the
\* expected counts), its tokens, cost and time
RefScore == [i \in 1..Len(results) |->
                LET score == CalculateMetrics(results)[i].completeness_score
                IN  (score[1] * 4200) \div score[2]]
RefTokens == [i \in 1..Len(results) |-> results[i].total_tokens]
RefCost == [i \in 1..Len(results) |-> results[i].cost_usd]
RefTime == [i \in 1..Len(results) |-> results[i].extraction_time]

\* the summary entry st tallies its group: the error results add nothing to
\* its means and totals and are counted as failed, the error-free ones are
\* counted as successful
GroupTallies(st) ==
    LET ok == RefOkIdx(st.model)
        n == Cardinality(ok)
    IN  /\ st.successful_extractions = n
        /\ st.failed_extractions = Cardinality(RefGroupIdx(st.model)) - n
        /\ st.total_tokens = SetSum(RefTokens, ok)
        /\ st.total_cost = SetSum(RefCost, ok)
        /\ st.avg_time[1] * n = st.avg_time[2] * SetSum(RefTime, ok)
        /\ st.avg_completeness[1] * n * 4200
              = st.avg_completeness[2] * SetSum(RefScore, ok)

RefMeanScore(key) == <<SetSum(RefScore, RefOkIdx(key)), Cardinality(RefOkIdx(key))>>
RefTotalCost(key) == <<SetSum(RefCost, RefOkIdx(key)), 1>>
RefMeanTime(key) == <<SetSum(RefTime, RefOkIdx(key)), Cardinality(RefOkIdx(key))>>
FirstIdx(key) == CHOOSE i \in RefGroupIdx(key) : \A j \in RefGroupIdx(key) : i <= j

\* a is ahead of b: a strictly greater ratio, or the same ratio and a's
\* group encountered first
Ahead(a, b, g, h) ==
    \/ a[1] * b[2] > b[1] * a[2]
    \/ a[1] * b[2] = b[1] * a[2] /\ FirstIdx(g) < FirstIdx(h)

StatedPrices(id) ==
    CASE id = claude_sonnet_model -> <<12, 60>>
      [] id = claude_haiku_model  -> <<1, 5>>
      [] id = openai_gpt4_model   -> <<40, 120>>

\* the exact cost of the call under check, in quarter micro-USD
StatedQuarters ==
    call_args[1][1] * StatedPrices(call_args[1][3])[1]
    + call_args[1][2] * StatedPrices(call_args[1][3])[2]

\* C21: for a model of the sonnet, haiku or gpt-4 family the cost returned is
\* a whole number of micro-USD (6 decimals) nearest to
\* t_in/1e6 * pIn + t_out/1e6 * pOut: it is at most half a micro-USD away
C21_CostIsRoundedFormula ==
    (call_value # None /\ call_args[1][3] # custom_openai_model)
        => /\ 4 * call_value[1] - StatedQuarters <= 2
           /\ StatedQuarters - 4 * call_value[1] <= 2

\* C21: a haiku call whose exact cost is no whole number of micro-USD got its
\* rounded cost
C21_Witness ==
    /\ call_value # None
    /\ call_args[1][3] = claude_haiku_model
    /\ StatedQuarters % 4 = 3
    /\ call_value[1] = StatedQuarters \div 4 + 1

\* C22: the cost is never negative, it is 0 for zero tokens whatever the
\* model, and it is 0 for an identifier that matches no pricing family
C22_CostNonNegativeZeroDefault ==
    call_value # None
        => /\ call_value[1] >= 0
           /\ (call_args[1][1] = 0 /\ call_args[1][2] = 0) => call_value[1] = 0
           /\ call_args[1][3] = custom_openai_model => call_value[1] = 0

\* C22: a call with tokens for an identifier of no pricing family returned 0
C22_Witness ==
    /\ call_value = Some(0)
    /\ call_args[1][3] = custom_openai_model
    /\ call_args[1][1] > 0
    /\ call_args[1][2] > 0

\* the first brace-delimited object span of a text: from its first "{" to the
\* first "}" after it
FirstObjectSpan(s) ==
    LET opens == {i \in 1..Len(s) : s[i] = "{"}
    IN  IF opens = {} THEN [found |-> FALSE, group |-> <<>>]
        ELSE LET i == CHOOSE a \in opens : \A b \in opens : a <= b
                 closes == {j \in (i + 1)..Len(s) : s[j] = "}"}
             IN  IF closes = {} THEN [found |-> FALSE, group |-> <<>>]
                 ELSE [found |-> TRUE,
                       group |-> SubSeq(s, i, CHOOSE a \in closes :
                                                 \A b \in closes : a <= b)]

\* the value of the first attempt that succeeds, as the specification lists them
StatedParse(s) ==
    LET direct == JsonLoads(s)
        block  == FencedBlock(s)
        inner  == JsonLoads(block.group)
        span   == FirstObjectSpan(s)
        object == JsonLoads(span.group)
    IN  IF direct.ok THEN direct.value
        ELSE IF block.found /\ inner.ok THEN inner.value
        ELSE IF span.found /\ object.ok THEN object.value
        ELSE None

\* C23: _parse_json_response returns the value of the first attempt that
\* succeeds among the whole text, the contents of a fenced block, and the
\* first brace-delimited object span; and for a text holding a fenced block
\* with an object the result is that block's contents parsed directly
C23_FirstSuccessfulAttempt ==
    call_value # None
        => /\ call_value[1] = StatedParse(call_args[1])
           /\ LET block == FencedBlock(call_args[1])
                  inner == JsonLoads(block.group)
              IN  (block.found /\ inner.ok /\ inner.value # None)
                      => call_value[1] = inner.value

\* the requests_per_minute the limiter of a backend is built with
StatedRpm(backend) ==
    IF backend = openai_gpt4_model THEN openai_rpm ELSE anthropic_rpm

\* C24: within one compare run, two extraction requests made to the same
\* backend are at least 60/requests_per_minute apart, and the limiter that
\* gates a call holds the time of the earlier requests to its backend
C24_SameBackendSpacing ==
    /\ \A i, j \in 1..Len(request_log) :
          (i < j /\ request_log[i].backend = request_log[j].backend)
              => request_log[j].at - request_log[i].at
                     >= TicksPerMinute \div StatedRpm(request_log[i].backend)
    /\ \A t \in Tasks : \A i \in 1..Len(request_log) :
          (pc[t] = "locked" /\ request_log[i].backend = extractor.model_name)
              => last_request_time >= request_log[i].at

\* the remote requests among the first i requests of the history
ApiRequestsUpTo(i) == {j \in 1..i : request_log[j].backend = "api"}

\* C25 as stated: every parse request, remote or local, is preceded by an
\* acquire() of its own on the parser's limiter: by the i-th request the
\* limiter has made at least i grants
C25_Original ==
    \A i \in 1..Len(request_log) : request_log[i].granted >= i

\* C25 amended: every request to the remote service is preceded by an
\* acquire() of its own (by the k-th remote request the limiter has made at
\* least k grants), and a parser that parses locally never acquires
C25_RemoteRequestAfterAcquire ==
    /\ \A i \in 1..Len(request_log) :
          request_log[i].backend = "api"
              => request_log[i].granted >= Cardinality(ApiRequestsUpTo(i))
    /\ ~(use_api /\ client) => grants = <<>>

\* C25: a second remote request was made, after a second grant
C25_Witness ==
    /\ Len(request_log) >= 2
    /\ request_log[2].backend = "api"
    /\ request_log[2].granted = 2

\* C26: a parse() call on a file that does not exist ends in the step that
\* makes it: it returns (does not raise) a ParseResult with error set and
\* empty text, the limiter is as before (last_request_time, its grants and
\* its lock), and no remote or local request is made
C26_MissingFileReturnsAtOnce ==
    [][\A t \in Tasks :
          (calls' = calls + 1 /\ outcome'[t] = FileOutcome("missing"))
              => /\ pc'[t] = "p_done"
                 /\ result'[t] # None
                 /\ result'[t][1].kind = "returned"
                 /\ Truthy(result'[t][1].value.error)
                 /\ result'[t][1].value.text = <<>>
                 /\ backend_calls'[t] = 0
                 /\ UNCHANGED <<limVars, request_log>>]_vars

\* C26: parse() was called on a missing file after the limiter had made a
\* grant, and has returned
C26_Witness ==
    \E t \in Tasks :
        /\ pc[t] = "p_done"
        /\ outcome[t] = FileOutcome("missing")
        /\ last_request_time > 0
        /\ Len(request_log) = 1

\* i is the first result in input order whose key is the smallest
FirstLeast(keys, i) ==
    /\ \A j \in 1..Len(keys) : ~FracLess(keys[j], keys[i])
    /\ \A j \in 1..(i - 1) : FracLess(keys[i], keys[j])

\* i is the first result in input order whose key is the largest
FirstGreatest(keys, i) ==
    /\ \A j \in 1..Len(keys) : ~FracLess(keys[i], keys[j])
    /\ \A j \in 1..(i - 1) : FracLess(keys[j], keys[i])

\* C27: for a non-empty list of results compare_single_query_results returns
\* one metrics entry per result, in input order, and the three best_by names
\* are the models of the first result of minimum cost, of minimum extraction
\* time and of maximum completeness score
C27_SingleQueryBest ==
    (call_value # None /\ call_args[1][1] # <<>>)
        => LET rs == call_args[1][1]
               n  == Len(rs)
               v  == call_value[1].value
           IN  /\ call_value[1].kind = "returned"
               /\ v.models_compared = n
               /\ Len(v.metrics) = n
               /\ \A i \in 1..n :
                     /\ v.metrics[i].model = rs[i].model
                     /\ v.metrics[i].cost = rs[i].cost_usd
                     /\ v.metrics[i].time = rs[i].extraction_time
                     /\ v.metrics[i].tokens = rs[i].total_tokens
               /\ \E i \in 1..n :
                     /\ FirstLeast([k \in 1..n |-> <<rs[k].cost_usd, 1>>], i)
                     /\ v.best_by_cost = rs[i].model
               /\ \E i \in 1..n :
                     /\ FirstLeast([k \in 1..n |-> <<rs[k].extraction_time, 1>>], i)
                     /\ v.best_by_speed = rs[i].model
               /\ \E i \in 1..n :
                     /\ FirstGreatest([k \in 1..n |-> v.metrics[k].completeness], i)
                     /\ v.best_by_completeness = rs[i].model

\* C27: a call returned for two results of different models that tie on
\* cost and on time, and named the first for both
C27_Witness ==
    /\ call_value # None
    /\ Len(call_args[1][1]) = 2
    /\ call_args[1][1][1].model # call_args[1][1][2].model
    /\ call_args[1][1][1].cost_usd = call_args[1][1][2].cost_usd
    /\ call_args[1][1][1].extraction_time = call_args[1][1][2].extraction_time
    /\ call_value[1].value.best_by_cost = call_args[1][1][1].model
    /\ call_value[1].value.best_by_speed = call_args[1][1][1].model

InAcquire(t) == pc[t] \in {"lock_wait", "locked", "record"}

\* C29: every task that calls acquire() eventually returns from it; no
\* deadlock is reachable (whenever tasks wait for the lock, a task that is
\* not waiting for it holds it); and the k-th grant is no earlier than
\* (k-1) * 60/R after the first
C29_EveryCallerReturns ==
    /\ \A t \in Tasks : InAcquire(t) ~> (pc[t] = "acquired")
    /\ [](lock_waiters # <<>>
            => \E h \in lock_holder : pc[h] \in {"locked", "record"})
    /\ [](\A k \in 1..Len(grants) :
            grants[k] - grants[1] >= (k - 1) * min_interval)

\* C29: every task called acquire() at the same time: one is asleep holding
\* the lock and all the others wait for it
C29_Witness ==
    \E t \in Tasks :
        /\ pc[t] = "record"
        /\ clock < wake_at[t]
        /\ \A u \in Tasks \ {t} : pc[u] = "lock_wait"

\* C30: generate_summary_stats keeps the results of different backend
\* identifiers apart: every group of the summary counts the results of
\* exactly one identifier, the one whose normalized key names the group
C30_GroupsAreNotMerged ==
    summary # None
        => \A k \in 1..Len(summary[1]) :
              \E i \in 1..Len(results) :
                  LET same == {j \in 1..Len(results) :
                                  results[j].model = results[i].model}
                  IN  /\ ModelGroup(results[i].model) = summary[1][k].model
                      /\ summary[1][k].successful_extractions
                             + summary[1][k].failed_extractions = Cardinality(same)
====
